---- MODULE Spec2Model ----
(***************************************************************************)
(* Goal execution engine (agent_service.execute_goal) together with the    *)
(* guarded SQL generation pipeline it drives (nl_to_sql.generate_sql,      *)
(* sql_guard.SQLGuard, cache.cache).                                       *)
(*                                                                         *)
(* A SQL statement is the sequence of its whitespace-separated words.  The *)
(* vocabulary keeps punctuation as words of their own, except for the      *)
(* compound words listed in WordIdents.  NoSql (the empty sequence) stands *)
(* for Python's None: no statement of the program is the empty string.     *)
(***************************************************************************)
EXTENDS Integers, Sequences, FiniteSets, TLC

\* ---------------------------------------------------------------- bounds
MaxRuns == 3        \* execute_goal runs on the Goal
MaxCalls == 2       \* generate_sql calls made outside the agent
MaxTicks == 1       \* clock advances
MaxCacheOps == 3    \* cache_get and cache_set calls of the requests running side by side

\* ------------------------------------------------------ program constants
LLM_SQL_CACHE_TTL_SECONDS == 21600
DefaultLimit == "200"
DefaultMaxSteps == 20
MaxAttempts == 2
MaxPlanSteps == 10

NoSql == <<>>
NoToken == 0
NoPlugin == "none"
NoDataset == ""

\* ------------------------------------------------------------ text model
\* str.lower() on one word
Lower(w) ==
    CASE w = "SELECT" -> "select"
      [] w = "FROM" -> "from"
      [] w = "WHERE" -> "where"
      [] w = "LIMIT" -> "limit"
      [] w = "AND" -> "and"
      [] w = "DROP" -> "drop"
      [] w = "TABLE" -> "table"
      [] w = "CURRENT_DATE" -> "current_date"
      [] w = "INTERVAL" -> "interval"
      [] w = "Total" -> "total"
      [] w = "Select" -> "select"
      [] w = "JOIN" -> "join"
      [] w = "ON" -> "on"
      [] w = "AS" -> "as"
      [] w = "ORDER" -> "order"
      [] w = "BY" -> "by"
      [] w = "DESC" -> "desc"
      [] w = "Drop" -> "drop"
      [] w = "DELETE" -> "delete"
      [] w = "Delete" -> "delete"
      [] w = "Insert" -> "insert"
      [] w = "UPDATE" -> "update"
      [] w = "Create" -> "create"
      [] w = "TRUNCATE" -> "truncate"
      [] w = "Alter" -> "alter"
      [] w = "GRANT" -> "grant"
      [] w = "Revoke" -> "revoke"
      [] w = "PRAGMA" -> "pragma"
      [] w = "Vacuum" -> "vacuum"
      [] w = "ANALYZE" -> "analyze"
      [] w = "Reindex" -> "reindex"
      [] OTHER -> w

LowerAll(sql) == [i \in 1..Len(sql) |-> Lower(sql[i])]

\* words that hold no [a-zA-Z_][a-zA-Z0-9_]* match
NonIdentWords ==
    {"*", "=", ">", ">=", "-", ";", "--", "(", ")", "/*", "*/", "0", "5", "200", "'30", ":"}

\* re.findall(r'\b[a-zA-Z_][a-zA-Z0-9_]*\b', word) for an already lowered word
WordIdents(w) ==
    CASE w \in NonIdentWords -> {}
      [] w = ":dataset_id" -> {"dataset_id"}
      [] w = ":limit" -> {"limit"}
      [] w = "sales.dataset_id" -> {"sales", "dataset_id"}
      [] w = "employees.dataset_id" -> {"employees", "dataset_id"}
      [] w = "s.dataset_id" -> {"s", "dataset_id"}
      [] w = "secret_table.dataset_id" -> {"secret_table", "dataset_id"}
      [] w = "timestamp.dataset_id" -> {"timestamp", "dataset_id"}
      [] w = "secret_table.store_id" -> {"secret_table", "store_id"}
      [] w = "s.amount" -> {"s", "amount"}
      [] w = "s.store_id" -> {"s", "store_id"}
      [] w = "c.store_id" -> {"c", "store_id"}
      [] w = "c.region" -> {"c", "region"}
      [] w = "sales.amount" -> {"sales", "amount"}
      [] w = "sales.store_id" -> {"sales", "store_id"}
      [] w = "stores.store_id" -> {"stores", "store_id"}
      [] w = "stores.region" -> {"stores", "region"}
      [] w = "'d1'" -> {"d1"}
      [] w = "days'" -> {"days"}
      [] OTHER -> {w}

Identifiers(sql) == UNION {WordIdents(Lower(sql[i])) : i \in 1..Len(sql)}

\* a word that is one identifier and nothing else
IsIdentWord(w) == WordIdents(Lower(w)) = {Lower(w)}

StartsWithQuote(w) == w \in {"'d1'", "'30"}
EndsWithQuote(w) == w \in {"'d1'", "days'"}
StartsWithWordChar(w) ==
    w \notin {"*", "=", ">", ">=", "-", ";", "--", "(", ")", "/*", "*/", ":dataset_id", "'d1'", "'30",
               ":limit", ":"}

HasWord(sql, w) == \E i \in 1..Len(sql) : Lower(sql[i]) = w
HasPair(sql, a, b) == \E i \in 1..Len(sql) - 1 : Lower(sql[i]) = a /\ Lower(sql[i + 1]) = b

\* ------------------------------------------------- agent_service helpers
is_risky_sql(sql) ==
    IF sql = NoSql THEN TRUE
    ELSE IF ~HasWord(sql, "limit") THEN TRUE
    ELSE IF ~HasWord(sql, "where") /\ ~HasPair(sql, "group", "by") THEN TRUE
    ELSE \E i \in 1..Len(sql) - 2 :
            Lower(sql[i]) = "select" /\ sql[i + 1] = "*" /\ Lower(sql[i + 2]) = "from"

\* a handler that never asks for approval
needs_approval_never(sql, auto_approve) == FALSE

\* _run_step_sql_execution, line 337
needs_approval(sql, auto_approve) == is_risky_sql(sql) /\ ~auto_approve

\* ---------------------------------------------------------------- SQLGuard
FORBIDDEN_KEYWORDS ==
    {"insert", "update", "delete", "drop", "create", "truncate", "alter",
     "grant", "revoke", "pragma", "vacuum", "analyze", "reindex"}

ALLOWED_KEYWORDS ==
    {"select", "from", "where", "group", "by", "order", "limit", "offset",
     "join", "inner", "left", "right", "full", "outer", "on", "using",
     "union", "intersect", "except", "case", "when", "then", "else", "end",
     "and", "or", "not", "in", "exists", "between", "like", "is", "null",
     "distinct", "as", "with", "recursive", "having", "cross"}

ALLOWED_FUNCTIONS ==
    {"sum", "count", "avg", "min", "max", "stddev", "variance",
     "date", "extract", "current_date", "current_timestamp", "now",
     "upper", "lower", "concat", "substring", "length", "trim",
     "round", "abs", "ceil", "floor", "coalesce", "nullif",
     "cast", "to_char", "to_date", "interval"}

EXTRA_ALLOWED_IDENTIFIERS ==
    {"day", "date", "sale_date", "order_date", "timestamp", "total_sales"}

RiskyFunctions == {"pg_sleep", "pg_stat_activity", "pg_catalog", "set_config"}

Plugins == {"retail", "hr"}

\* the allowlist set_active_plugin hands to SQLGuard for each plugin
allowed_tables(p) ==
    IF p = "retail" THEN {"sales", "stores"} ELSE IF p = "hr" THEN {"employees"} ELSE {}
allowed_columns(p) ==
    (IF p = "retail" THEN {"amount", "region", "store_id"} ELSE IF p = "hr" THEN {"salary", "hired_at"} ELSE {})
        \cup {"dataset_id"}

check_select_first(sql) == Len(sql) > 0 /\ Lower(sql[1]) = "select"

\* a keyword check that lets every statement through
check_forbidden_keywords_none(sql) == TRUE
\* _check_forbidden_keywords (lines 95-103)
check_forbidden_keywords(sql) == Identifiers(sql) \cap FORBIDDEN_KEYWORDS = {}

\* names introduced by AS, or following a closing parenthesis
AliasNames(sql) ==
    {Lower(sql[i + 1]) : i \in {j \in 1..Len(sql) - 1 :
        /\ IsIdentWord(sql[j + 1])
        /\ \/ Lower(sql[j]) = "as"
           \/ sql[j] = ")"}}

Disallowed(sql, p) ==
    ((((Identifiers(sql) \ AliasNames(sql))
        \ (ALLOWED_KEYWORDS \cup FORBIDDEN_KEYWORDS \cup ALLOWED_FUNCTIONS))
        \ allowed_tables(p)) \ allowed_columns(p))
        \ EXTRA_ALLOWED_IDENTIFIERS

check_schema_allowlist(sql, p) == Disallowed(sql, p) = {}

check_injection_patterns(sql) ==
    /\ ~(Len(sql) > 0 /\ sql[Len(sql)] = "--")
    /\ ~(\E i, j \in 1..Len(sql) : i < j /\ sql[i] = "/*" /\ sql[j] = "*/")
    /\ ~(\E i \in 1..Len(sql) - 1 : sql[i] = ";" /\ StartsWithWordChar(sql[i + 1]))
    /\ ~(\E i \in 1..Len(sql) - 2 :
            EndsWithQuote(sql[i]) /\ Lower(sql[i + 1]) = "or" /\ StartsWithQuote(sql[i + 2]))
    /\ ~(\E i \in 1..Len(sql) - 2 :
            EndsWithQuote(sql[i]) /\ sql[i + 1] = ";" /\ Lower(sql[i + 2]) = "drop")

check_risky_functions(sql) == Identifiers(sql) \cap RiskyFunctions = {}

\* the checks with the keyword check moved before the SELECT check
validate_error_keywords_first(sql, p) ==
    IF ~check_forbidden_keywords(sql) THEN "forbidden_keyword"
    ELSE IF ~check_select_first(sql) THEN "not_select"
    ELSE IF ~check_schema_allowlist(sql, p) THEN "allowlist"
    ELSE IF ~check_injection_patterns(sql) THEN "injection"
    ELSE IF ~check_risky_functions(sql) THEN "risky_function"
    ELSE "none"

\* the check of SQLGuard.validate that raises first, in the order the code
\* runs them (lines 76-90); "none" where the code returns True
validate_error(sql, p) ==
    IF ~check_select_first(sql) THEN "not_select"
    ELSE IF ~check_forbidden_keywords(sql) THEN "forbidden_keyword"
    ELSE IF ~check_schema_allowlist(sql, p) THEN "allowlist"
    ELSE IF ~check_injection_patterns(sql) THEN "injection"
    ELSE IF ~check_risky_functions(sql) THEN "risky_function"
    ELSE "none"

\* SQLGuard.validate under plugin p's allowlist: TRUE where the code returns
\* True, FALSE where it raises SQLGuardError
validate(sql, p) ==
    /\ check_select_first(sql)
    /\ check_forbidden_keywords(sql)
    /\ check_schema_allowlist(sql, p)
    /\ check_injection_patterns(sql)
    /\ check_risky_functions(sql)

\* first FROM followed by an identifier; 0 when there is none
FromIndex(sql) ==
    LET hits == {i \in 1..Len(sql) - 1 : Lower(sql[i]) = "from" /\ IsIdentWord(sql[i + 1])}
    IN IF hits = {} THEN 0 ELSE CHOOSE i \in hits : \A j \in hits : i <= j

FromAlias(sql) ==
    LET i == FromIndex(sql)
    IN IF i = 0 THEN ""
       ELSE IF i + 3 <= Len(sql) /\ Lower(sql[i + 2]) = "as" /\ IsIdentWord(sql[i + 3])
            THEN sql[i + 3]
            ELSE sql[i + 1]

\* the text of a word before its last "limit" (any letter case) and from it
\* on; <<>> for a word that does not hold the text
LimitFragments(w) ==
    CASE w = "LIMIT" -> <<"", "LIMIT">>
      [] w = "limit" -> <<"", "limit">>
      [] w = ":limit" -> <<":", "limit">>
      [] w = "credit_limit" -> <<"credit_", "limit">>
      [] OTHER -> <<>>

\* lower_sql.rfind("limit") as the index of the word it falls in; 0 for -1
LimitIndex(sql) ==
    LET hits == {i \in 1..Len(sql) : LimitFragments(sql[i]) # <<>>}
    IN IF hits = {} THEN 0 ELSE CHOOSE i \in hits : \A j \in hits : i >= j

\* sql[:limit_idx].rstrip() and sql[limit_idx:]; the whole statement and
\* nothing when limit_idx is -1
SplitAtLimit(sql) ==
    LET k == LimitIndex(sql)
    IN IF k = 0 THEN [before |-> sql, after |-> <<>>]
       ELSE LET f == LimitFragments(sql[k])
            IN [before |-> SubSeq(sql, 1, k - 1) \o (IF f[1] = "" THEN <<>> ELSE <<f[1]>>),
                after |-> <<f[2]>> \o SubSeq(sql, k + 1, Len(sql))]

HasLiteralDatasetFilter(sql, param) ==
    \E i \in 1..Len(sql) - 2 :
        /\ param \in WordIdents(Lower(sql[i]))
        /\ sql[i + 1] = "="
        /\ StartsWithQuote(sql[i + 2])

MentionsParam(sql, param) == param \in Identifiers(sql)

HasWhere(sql) ==
    \/ \E i \in 2..Len(sql) - 1 : Lower(sql[i]) = "where"
    \/ (Len(sql) > 1 /\ Lower(sql[1]) = "where")

\* enforce_dataset_filter where it returns (the caller tests
\* HasLiteralDatasetFilter first: there the code raises SQLGuardError)
enforce_dataset_filter(sql, param) ==
    IF MentionsParam(sql, param) THEN sql
    ELSE LET alias == FromAlias(sql)
             predicate == <<(IF alias = "" THEN param ELSE alias \o "." \o param),
                            "=", ":" \o param>>
             before == SplitAtLimit(sql).before
             after == SplitAtLimit(sql).after
         IN before \o <<(IF HasWhere(sql) THEN "AND" ELSE "WHERE")>> \o predicate \o after

\* ---------------------------------------------------------------- nl_to_sql
StripSemis(sql) ==
    IF Len(sql) > 0 /\ sql[Len(sql)] = ";" THEN SubSeq(sql, 1, Len(sql) - 1) ELSE sql

normalize_sql(sql) ==
    LET cleaned == StripSemis(sql)
    IN IF HasWord(cleaned, "limit") THEN cleaned ELSE cleaned \o <<"LIMIT", DefaultLimit>>


\* DATE('YYYY-MM-DD' - INTERVAL 'n day') is rewritten to
\* (DATE 'YYYY-MM-DD' - INTERVAL 'n day'): the opening word changes
fix_date_literal_intervals(sql) ==
    [i \in 1..Len(sql) |->
        IF /\ sql[i] = "DATE('2024-01-01'"
           /\ i + 4 <= Len(sql)
           /\ sql[i + 1] = "-"
           /\ Lower(sql[i + 2]) = "interval"
           /\ sql[i + 3] = "'1"
           /\ sql[i + 4] = "day')"
        THEN "(DATE '2024-01-01'"
        ELSE sql[i]]

\* PluginConfig.primary_time_column and policy.max_date_range_days
primary_time_column(p) == IF p = "hr" THEN "hired_at" ELSE ""
max_date_range_days(p) == IF p = "hr" THEN 30 ELSE 0

clamp_date_range(sql, time_column, max_days) ==
    IF time_column = "" \/ max_days = 0 THEN sql
    ELSE IF time_column \in Identifiers(sql) THEN sql
    ELSE LET k == LimitIndex(sql)
             clamp == <<time_column, ">=", "CURRENT_DATE", "-", "INTERVAL", "'30", "days'">>
             where == \E i \in 1..(IF k = 0 THEN Len(sql) ELSE k - 1) : Lower(sql[i]) = "where"
         IN SplitAtLimit(sql).before \o <<(IF where THEN "AND" ELSE "WHERE")>> \o clamp
                \o SplitAtLimit(sql).after

\* questions are sequences of words too
classify_intent(question) ==
    LET q == LowerAll(question)
    IN IF Len(q) = 0 THEN "needs_clarification"
       ELSE IF \/ \E i \in 1..Len(q) : q[i] \in {"joke", "lyrics", "story", "weather"}
               \/ \E i \in 1..Len(q) - 2 : q[i] = "who" /\ q[i + 1] = "are" /\ q[i + 2] = "you"
               \/ \E i \in 1..Len(q) - 1 : q[i] = "explain" /\ q[i + 1] = "plugin"
            THEN "unsupported"
       ELSE IF Len(q) < 3 THEN "needs_clarification"
       ELSE "analytics_query"

\* PluginConfig.validate_question: no forbidden topic occurs in the question
forbidden_topics(p) == IF p = "retail" THEN {"salary"} ELSE {}
validate_question(question, p) ==
    ~\E i \in 1..Len(question) : Lower(question[i]) \in forbidden_topics(p)

\* cache.normalize_question: lower case, single spaces
normalize_question(question) == LowerAll(question)

\* stable_hash(key_obj): the key object itself (sha256 taken as injective)
CacheKey(p, dataset_id, dataset_version, question) ==
    [plugin |-> p, dataset_id |-> dataset_id, dataset_version |-> dataset_version,
     question |-> normalize_question(question)]

\* ------------------------------------------------------------------- cache
\* _MemoryCache.get: [value, store]; value NoSql when missing or expired
cache_get_always_miss(store, key, t) == [value |-> NoSql, store |-> store]

cache_get(store, key, t) ==
    IF key \notin DOMAIN store THEN [value |-> NoSql, store |-> store]
    ELSE IF store[key].exp < t
         THEN [value |-> NoSql, store |-> [k \in DOMAIN store \ {key} |-> store[k]]]
         ELSE [value |-> store[key].sql, store |-> store]

\* a set that ignores the time-to-live
cache_set_no_ttl(store, key, value, ttl, t) ==
    [k \in DOMAIN store \cup {key} |->
        IF k = key THEN [exp |-> t, sql |-> value] ELSE store[k]]

\* _MemoryCache.set
cache_set(store, key, value, ttl, t) ==
    [k \in DOMAIN store \cup {key} |->
        IF k = key THEN [exp |-> t + ttl, sql |-> value] ELSE store[k]]

\* what the text-generation backend may return as SQL (NoSql: no response)
T_ok == <<"select", "amount", "from", "sales", "where", "amount", ">", "0">>
T_star == <<"SELECT", "*", "FROM", "sales">>
T_hr == <<"select", "salary", "from", "employees", "where", "hired_at", ">", "0", "limit", "5">>
T_drop == <<"DROP", "TABLE", "sales">>
T_lit == <<"select", "amount", "from", "sales", "where", "dataset_id", "=", "'d1'", "limit", "5">>
LlmSqlTexts == {T_ok, T_star, T_hr, T_drop, T_lit}
LlmResponses == LlmSqlTexts \cup {NoSql}

NoResult ==
    [sql |-> NoSql, confidence |-> "low", intent |-> "none", repairs |-> 0,
     failure_reason |-> "none", cache_hit |-> FALSE]

\* one generation attempt: the normalized candidate of response r
Candidate(r, p) ==
    normalize_sql(clamp_date_range(fix_date_literal_intervals(r),
                                   primary_time_column(p), max_date_range_days(p)))

\* the try/except around SQL_GUARD.validate(candidate_sql): the candidate is kept
\* when validate returns, dropped when it raises SQLGuardError
guard_passes_always(c, p) == TRUE

guard_passes(c, p) == validate(c, p)

\* one pass of the loop body (lines 258-268) for each response and plugin:
\* the candidate, whether the loop keeps it, and whether validate accepts it
Attempt ==
    [r \in LlmResponses |-> [p \in Plugins |->
        [sql |-> Candidate(r, p),
         kept |-> r # NoSql /\ guard_passes(Candidate(r, p), p),
         valid |-> r # NoSql /\ validate(Candidate(r, p), p)]]]

\* line 280: confidence of the result, from the statement and the attempts made
Confidence_always_high(sql, attempts) == "high"

Confidence(sql, attempts) ==
    IF sql # NoSql /\ attempts = 1 THEN "high"
    ELSE IF sql # NoSql THEN "medium" ELSE "low"

\* a pipeline that consults the tenant policy before it classifies the question
generate_sql_policy_first(query, dataset_id, dataset_version, p, store, t, r1, r2) ==
    [raised |-> p = NoPlugin \/ ~validate_question(query, p),
     result |-> [NoResult EXCEPT !.intent = classify_intent(query),
                                 !.failure_reason = IF classify_intent(query) = "unsupported"
                                                    THEN "unsupported_intent"
                                                    ELSE "clarification_required"],
     store |-> store, accepted |-> {}, llm_calls |-> 0, failed_attempts |-> 0,
     plugin |-> p, key |-> CacheKey(p, dataset_id, dataset_version, query)]

\* generate_sql under active plugin p, cache store `store`, clock t, with r1 and r2
\* the backend's answers to the first and the second attempt.  Gives the
\* returned result (raised: the call raises ValueError instead), the store
\* afterwards, the candidates SQL_GUARD.validate was called on and accepted (with p), the
\* number of backend calls and of attempts that yielded no statement.
generate_sql(query, dataset_id, dataset_version, p, store, t, r1, r2) ==
    LET intent == classify_intent(query)
        key == CacheKey(p, dataset_id, dataset_version, query)
        got == cache_get(store, key, t)
        c1 == Attempt[r1][p].sql
        c2 == Attempt[r2][p].sql
        ok1 == Attempt[r1][p].kept
        ok2 == Attempt[r2][p].kept
        sql == IF ok1 THEN c1 ELSE IF ok2 THEN c2 ELSE NoSql
        attempts == IF ok1 THEN 1 ELSE MaxAttempts
        last_error == IF attempts = 1 THEN "none"
                      ELSE IF ok2 THEN (IF r1 = NoSql THEN "llm_unavailable" ELSE "guard_error")
                      ELSE IF r2 = NoSql THEN "llm_unavailable" ELSE "guard_error"
        quiet == [raised |-> FALSE, result |-> NoResult, store |-> store,
                  accepted |-> {}, llm_calls |-> 0, failed_attempts |-> 0, plugin |-> p,
                  key |-> key]
    IN IF p = NoPlugin THEN [quiet EXCEPT !.raised = TRUE]
       ELSE IF intent = "unsupported"
            THEN [quiet EXCEPT !.result = [NoResult EXCEPT !.intent = intent,
                                              !.failure_reason = "unsupported_intent"]]
       ELSE IF intent = "needs_clarification"
            THEN [quiet EXCEPT !.result = [NoResult EXCEPT !.intent = intent,
                                              !.failure_reason = "clarification_required"]]
       ELSE IF ~validate_question(query, p) THEN [quiet EXCEPT !.raised = TRUE]
       ELSE IF got.value # NoSql
            THEN [quiet EXCEPT !.store = got.store,
                               !.result = [sql |-> got.value, confidence |-> "high",
                                           intent |-> "analytics_query", repairs |-> 0,
                                           failure_reason |-> "none", cache_hit |-> TRUE]]
       ELSE [raised |-> FALSE,
             result |-> [sql |-> sql,
                         confidence |-> Confidence(sql, attempts),
                         intent |-> intent,
                         repairs |-> attempts - 1,
                         failure_reason |-> IF sql # NoSql THEN "none" ELSE last_error,
                         cache_hit |-> FALSE],
             store |-> IF sql # NoSql
                       THEN cache_set(got.store, key, sql, LLM_SQL_CACHE_TTL_SECONDS, t)
                       ELSE got.store,
             accepted |-> (IF Attempt[r1][p].valid THEN {<<p, c1>>} ELSE {})
                             \cup (IF ~ok1 /\ Attempt[r2][p].valid THEN {<<p, c2>>} ELSE {}),
             llm_calls |-> attempts,
             failed_attempts |-> (IF ~ok1 THEN 1 ELSE 0) + (IF ~ok1 /\ ~ok2 THEN 1 ELSE 0),
             plugin |-> p,
             key |-> key]

\* ------------------------------------------------------------ plan builder
TOOL_CATALOG ==
    {"schema_retrieval", "kb_retrieval", "example_retrieval", "sql_generation",
     "sql_verifier", "sql_execution", "anomaly_scan", "summary_writer"}

AnomalyKeywords == {"anomaly", "drop", "spike", "sudden", "outlier"}

\* a plan builder that inserts the anomaly scan for every goal text
heuristic_plan_always_scan(goal_text) ==
    <<"schema_retrieval", "kb_retrieval", "example_retrieval",
      "sql_generation", "sql_verifier", "sql_execution", "anomaly_scan", "summary_writer">>

\* _heuristic_plan (lines 160-173); `k in q` is a substring test, so a word
\* that holds a keyword inside it counts
heuristic_plan(goal_text) ==
    LET base == <<"schema_retrieval", "kb_retrieval", "example_retrieval",
                  "sql_generation", "sql_verifier", "sql_execution">>
        holds_keyword(w) == Lower(w) \in AnomalyKeywords \cup {"dropped", "outliers"}
    IN IF \E i \in 1..Len(goal_text) : holds_keyword(goal_text[i])
       THEN base \o <<"anomaly_scan", "summary_writer">>
       ELSE base \o <<"summary_writer">>

\* plans the LLM planner may return (lines naming catalog tools)
LlmPlans == {<<"sql_generation", "sql_execution", "sql_execution", "summary_writer">>}

GoalTexts ==
    {<<"Total", "sales", "today">>, <<"sudden", "sales", "drop">>,
     <<"tell", "a", "joke">>, <<"total", "salary", "paid">>}

\* questions of the chat path: those above, and two that are off-topic or too
\* short and also name a topic the retail policy forbids
ChatQuestions == GoalTexts \cup {<<"salary", "joke">>, <<"salary">>}

DatasetIds == {NoDataset, "d1"}

\* Dataset.version of the dataset row (0 when the Goal names no dataset)
DatasetVersion(dataset_id) == IF dataset_id = NoDataset THEN 0 ELSE 1

\* ------------------------------------------------------------------- state
VARIABLES
    goal,           \* the AgentGoal row
    steps,          \* its AgentPlanStep rows, by step_order
    run,            \* the locals of the execute_goal call in progress
    ret,            \* what the last execute_goal call returned
    active_plugin,  \* nl_to_sql.ACTIVE_PLUGIN / SQL_GUARD
    cache,          \* _memory_cache.store
    now,            \* time.time()
    next_token,     \* the next value secrets.token_urlsafe yields
    spent_tokens,   \* history: the tokens a run has accepted to unblock a step
    validated,      \* <<plugin, statement>>: SQL_GUARD.validate accepted it under the plugin
    db_log,         \* statements sql_execution has sent to the database
    rag_examples,   \* statements store_rag_example has stored
    last_gen,       \* outcome of the last generate_sql call
    runs, calls, ticks,
    conc,           \* two execute_goal calls on the Goal that overlap in time
    probe           \* one function called on its own: its argument and what it gave

vars == <<goal, steps, run, ret, active_plugin, cache, now, next_token, spent_tokens,
          validated, db_log, rag_examples, last_gen, runs, calls, ticks, conc, probe>>

NoOutput == [present |-> FALSE, sql |-> NoSql]
EmptyOutputs == [t \in TOOL_CATALOG |-> NoOutput]

IdleRun ==
    [pc |-> "idle", auto_approve |-> FALSE, max_steps |-> 0, approval_token |-> NoToken,
     pending |-> <<>>, pos |-> 0, cur |-> 0, executed_count |-> 0,
     step_outputs |-> EmptyOutputs,
     \* history of the call, for the properties below
     before_status |-> "none", start_blocked |-> 0, start_failed |-> FALSE,
     matched |-> FALSE, unblocked |-> 0, raised |-> FALSE]

NoReturn == [status |-> "none", requires_human_approval |-> FALSE,
             approval_token |-> NoToken, executed_steps |-> 0]

\* what last_gen keeps of a generate_sql outcome
Outcome(g) == [raised |-> g.raised, result |-> g.result, llm_calls |-> g.llm_calls,
               failed_attempts |-> g.failed_attempts, plugin |-> g.plugin, key |-> g.key,
               feedback |-> FALSE]

\* no overlapping calls, no SQLGuard call under observation
NoConc == [call |-> <<>>, dispatched |-> {}]
NoProbe == [op |-> "none", sql |-> NoSql, plugin |-> NoPlugin, ok |-> FALSE,
            error |-> "none", out |-> NoSql]

NoGen == [raised |-> FALSE, result |-> NoResult, llm_calls |-> 0, failed_attempts |-> 0,
          plugin |-> NoPlugin, key |-> CacheKey(NoPlugin, NoDataset, 0, <<>>),
          feedback |-> FALSE]

\* create_goal_with_plan: status open, every step pending, orders 1..n
GoalRow(p, d, text) ==
    [status |-> "open", plugin_id |-> p, dataset_id |-> d,
     goal_text |-> text, approval_token |-> NoToken,
     requires_human_approval |-> FALSE,
     step_outputs |-> EmptyOutputs]

\* rows numbered from zero
StepRows_from_zero(plan) ==
    [i \in 1..Len(plan) |->
        [step_order |-> i - 1, tool_name |-> plan[i], status |-> "pending",
         requires_approval |-> FALSE]]

\* the AgentPlanStep rows of a plan: plan_goal numbers the steps from 1
\* (lines 222-229), create_goal_with_plan stores them pending (lines 259-268)
StepRows(plan) ==
    [i \in 1..Len(plan) |->
        [step_order |-> i, tool_name |-> plan[i], status |-> "pending",
         requires_approval |-> FALSE]]

create_goal_with_plan(p, d, text, plan) ==
    /\ goal = GoalRow(p, d, text)
    /\ steps = StepRows(plan)

\* plan_goal: the LLM planner's plan, or the heuristic one
plan_goal(text) == {heuristic_plan(text)} \cup LlmPlans

InitRest ==
    /\ run = IdleRun
    /\ ret = NoReturn
    /\ active_plugin = NoPlugin
    /\ cache = <<>>
    /\ now = 0
    /\ next_token = 1
    /\ spent_tokens = {}
    /\ validated = {}
    /\ db_log = {}
    /\ rag_examples = {}
    /\ last_gen = NoGen
    /\ runs = 0
    /\ calls = 0
    /\ ticks = 0
    /\ conc = NoConc
    /\ probe = NoProbe

Init ==
    /\ \E text \in GoalTexts, p \in Plugins, d \in DatasetIds :
         \E plan \in plan_goal(text) : create_goal_with_plan(p, d, text, plan)
    /\ InitRest

\* ------------------------------------------------------------ execute_goal
\* _pending_steps: orders of the pending or blocked steps, ascending
RECURSIVE PendingFrom(_, _)
PendingFrom(ss, i) ==
    IF i > Len(ss) THEN <<>>
    ELSE IF ss[i].status \in {"pending", "blocked"}
         THEN <<i>> \o PendingFrom(ss, i + 1)
         ELSE PendingFrom(ss, i + 1)

RECURSIVE Reverse(_)
Reverse(s) == IF s = <<>> THEN <<>> ELSE Reverse(Tail(s)) \o <<Head(s)>>

pending_steps_descending(ss) == Reverse(PendingFrom(ss, 1))

pending_steps(ss) == PendingFrom(ss, 1)

\* a token source that hands out a token some run has already accepted
token_urlsafe_reused ==
    IF spent_tokens # {} THEN CHOOSE t \in spent_tokens : TRUE ELSE next_token

\* secrets.token_urlsafe(16) (line 338): a value no earlier call has yielded
token_urlsafe == next_token

MaxStepsInputs == {-1, 1, DefaultMaxSteps}
Blocked(ss) == {i \in 1..Len(ss) : ss[i].status = "blocked"}
TokenInputs == 0..(next_token - 1)

\* lines 414-425: load the Goal, activate its plugin, mark it in_progress,
\* read the working memory and the pending steps
execute_goal_start(auto, ms, tok) ==
    /\ run.pc = "idle"
    /\ runs < MaxRuns
    /\ active_plugin' = goal.plugin_id
    /\ goal' = [goal EXCEPT !.status = "in_progress"]
    /\ run' = [IdleRun EXCEPT !.pc = "loop", !.auto_approve = auto, !.max_steps = ms,
                              !.approval_token = tok, !.pending = pending_steps(steps),
                              !.pos = 1, !.step_outputs = goal.step_outputs,
                              !.before_status = goal.status,
                              !.start_blocked = Cardinality(Blocked(steps)),
                              !.start_failed = \E i \in 1..Len(steps) : steps[i].status = "failed",
                              !.matched = /\ Blocked(steps) # {}
                                          /\ tok # NoToken
                                          /\ tok = goal.approval_token]
    /\ runs' = runs + 1
    /\ UNCHANGED <<steps, ret, cache, now, next_token, spent_tokens, validated, db_log,
                   rag_examples, last_gen, calls, ticks, conc, probe>>

\* POST /agent/goals/{goal_id}/run
run_agent_goal ==
    \E auto \in BOOLEAN, ms \in MaxStepsInputs, tok \in TokenInputs :
        execute_goal_start(auto, ms, tok)

\* POST /agent/goals/{goal_id}/approve
approve_agent_goal ==
    \E tok \in TokenInputs :
        /\ goal.approval_token # NoToken
        /\ goal.approval_token = tok
        /\ execute_goal_start(TRUE, DefaultMaxSteps, tok)

\* a loop without the budget test of line 427
InLoop_no_budget == run.pc = "loop" /\ run.pos <= Len(run.pending)

\* lines 426-428: a step is at hand and the budget is not used up
InLoop == run.pc = "loop" /\ run.pos <= Len(run.pending) /\ run.executed_count < run.max_steps
CurStep == run.pending[run.pos]

\* a token test that every run passes
TokenMatches_always == TRUE

\* line 430: the caller's token is the Goal's stored token
TokenMatches ==
    /\ run.approval_token # NoToken
    /\ goal.approval_token # NoToken
    /\ run.approval_token = goal.approval_token

\* the loop ends: no step left, or the budget is used up (lines 426-428)
LoopExit ==
    /\ run.pc = "loop"
    /\ ~InLoop
    /\ run' = [run EXCEPT !.pc = "finalize"]
    /\ UNCHANGED <<goal, steps, ret, active_plugin, cache, now, next_token, spent_tokens, validated,
                   db_log, rag_examples, last_gen, runs, calls, ticks, conc, probe>>

\* a blocked step without a matching token is passed over (lines 429, 436-437)
SkipBlocked ==
    /\ InLoop
    /\ steps[CurStep].status = "blocked"
    /\ ~TokenMatches
    /\ run' = [run EXCEPT !.pos = @ + 1]
    /\ UNCHANGED <<goal, steps, ret, active_plugin, cache, now, next_token, spent_tokens, validated,
                   db_log, rag_examples, last_gen, runs, calls, ticks, conc, probe>>

\* a blocked step with a matching token is reset to pending (lines 429-435);
\* MarkRunning follows in the same iteration
UnblockStep ==
    /\ InLoop
    /\ steps[CurStep].status = "blocked"
    /\ TokenMatches
    /\ steps' = [steps EXCEPT ![CurStep].status = "pending"]
    /\ goal' = [goal EXCEPT !.requires_human_approval = FALSE,
                            !.approval_token = NoToken,
                            !.status = "in_progress"]
    /\ run' = [run EXCEPT !.unblocked = CurStep]
    /\ spent_tokens' = spent_tokens \cup {run.approval_token}
    /\ UNCHANGED <<ret, active_plugin, cache, now, next_token, validated,
                   db_log, rag_examples, last_gen, runs, calls, ticks, conc, probe>>

\* a pending step is set running (lines 439-441)
MarkRunning ==
    /\ InLoop
    /\ steps[CurStep].status # "blocked"
    /\ steps' = [steps EXCEPT ![CurStep].status = "running"]
    /\ run' = [run EXCEPT !.pc = "dispatch", !.cur = CurStep]
    /\ UNCHANGED <<goal, ret, active_plugin, cache, now, next_token, spent_tokens, validated,
                   db_log, rag_examples, last_gen, runs, calls, ticks, conc, probe>>

Dispatching(tools) == run.pc = "dispatch" /\ steps[run.cur].tool_name \in tools

\* lines 483-488: the step completed with output `out`, merged into outs
StepCompleted(outs, out) ==
    /\ steps' = [steps EXCEPT ![run.cur].status = "completed"]
    /\ run' = [run EXCEPT !.pc = "loop", !.pos = @ + 1, !.executed_count = @ + 1,
                          !.step_outputs = [outs EXCEPT ![steps[run.cur].tool_name] = out]]
    /\ goal' = goal

\* an except block without its break: the loop goes on to the next step
StepFailed_continues ==
    /\ steps' = [steps EXCEPT ![run.cur].status = "failed"]
    /\ goal' = [goal EXCEPT !.status = "failed"]
    /\ run' = [run EXCEPT !.pc = "loop", !.pos = @ + 1, !.raised = TRUE]

\* an except block that forgets the step: it stays running
StepFailed_leaves_running ==
    /\ steps' = steps
    /\ goal' = [goal EXCEPT !.status = "failed"]
    /\ run' = [run EXCEPT !.pc = "finalize", !.raised = TRUE]

\* lines 489-496: the handler raised
StepFailed ==
    /\ steps' = [steps EXCEPT ![run.cur].status = "failed"]
    /\ goal' = [goal EXCEPT !.status = "failed"]
    /\ run' = [run EXCEPT !.pc = "finalize", !.raised = TRUE]

\* a handler that calls the retrieval service, the database or the text-generation
\* backend raises (sql_execution raises in RunSqlExecution)
HandlerRaises ==
    /\ Dispatching({"schema_retrieval", "kb_retrieval", "example_retrieval",
                    "sql_generation", "sql_verifier"})
    /\ StepFailed
    /\ UNCHANGED <<ret, active_plugin, cache, now, next_token, spent_tokens, validated,
                   db_log, rag_examples, last_gen, runs, calls, ticks, conc, probe>>

\* schema_retrieval, kb_retrieval, example_retrieval, anomaly_scan, summary_writer
RunPlainStep ==
    /\ Dispatching({"schema_retrieval", "kb_retrieval", "example_retrieval",
                    "anomaly_scan", "summary_writer"})
    /\ StepCompleted(run.step_outputs, [present |-> TRUE, sql |-> NoSql])
    /\ UNCHANGED <<ret, active_plugin, cache, now, next_token, spent_tokens, validated,
                   db_log, rag_examples, last_gen, runs, calls, ticks, conc, probe>>

\* _run_step_sql_generation: one generate_sql call for the focus question.  The
\* call passes learning_context and use_cache, which the signature at
\* nl_to_sql.py:163 does not declare: the call raising is HandlerRaises, the
\* call running the body of generate_sql is this action.
RunSqlGeneration ==
    /\ Dispatching({"sql_generation"})
    /\ \E r1, r2 \in LlmResponses :
         LET g == generate_sql(goal.goal_text, goal.dataset_id,
                               DatasetVersion(goal.dataset_id), active_plugin,
                               cache, now, r1, r2)
         IN /\ cache' = g.store
            /\ validated' = validated \cup g.accepted
            /\ last_gen' = Outcome(g)
            /\ IF g.raised
               THEN StepFailed
               ELSE StepCompleted(run.step_outputs, [present |-> TRUE, sql |-> g.result.sql])
    /\ UNCHANGED <<ret, active_plugin, now, next_token, spent_tokens, db_log, rag_examples,
                   runs, calls, ticks, conc, probe>>

\* sql_verifier (lines 452-460): a corrected statement replaces the generated one
RunSqlVerifier ==
    /\ Dispatching({"sql_verifier"})
    /\ LET sql == run.step_outputs["sql_generation"].sql
       IN IF sql = NoSql
          THEN StepFailed
          ELSE \E corrected \in LlmResponses :
                  StepCompleted(
                      IF corrected # NoSql
                      THEN [run.step_outputs EXCEPT
                                !["sql_generation"] = [present |-> TRUE, sql |-> corrected]]
                      ELSE run.step_outputs,
                      [present |-> TRUE, sql |-> corrected])
    /\ UNCHANGED <<ret, active_plugin, cache, now, next_token, spent_tokens, validated,
                   db_log, rag_examples, last_gen, runs, calls, ticks, conc, probe>>

\* the block path without its break: the loop goes on to the next step
BlockForApproval_continues ==
    /\ Dispatching({"sql_execution"})
    /\ LET sql == run.step_outputs["sql_generation"].sql
       IN /\ sql # NoSql
          /\ is_risky_sql(sql) /\ ~run.auto_approve
    /\ steps' = [steps EXCEPT ![run.cur].status = "blocked",
                              ![run.cur].requires_approval = TRUE]
    /\ goal' = [goal EXCEPT !.status = "waiting_approval",
                            !.requires_human_approval = TRUE,
                            !.approval_token = token_urlsafe]
    /\ next_token' = next_token + 1
    /\ spent_tokens' = spent_tokens
    /\ run' = [run EXCEPT !.pc = "loop", !.pos = @ + 1]
    /\ UNCHANGED <<ret, active_plugin, cache, now, validated, db_log, rag_examples,
                   last_gen, runs, calls, ticks, conc, probe>>

\* sql_execution, risky and not auto-approved (lines 337-339, 466-475)
BlockForApproval ==
    /\ Dispatching({"sql_execution"})
    /\ LET sql == run.step_outputs["sql_generation"].sql
       IN /\ sql # NoSql
          /\ needs_approval(sql, run.auto_approve)
    /\ steps' = [steps EXCEPT ![run.cur].status = "blocked",
                              ![run.cur].requires_approval = TRUE]
    /\ goal' = [goal EXCEPT !.status = "waiting_approval",
                            !.requires_human_approval = TRUE,
                            !.approval_token = token_urlsafe]
    /\ next_token' = next_token + 1
    /\ spent_tokens' = spent_tokens
    /\ run' = [run EXCEPT !.pc = "finalize"]
    /\ UNCHANGED <<ret, active_plugin, cache, now, validated, db_log, rag_examples,
                   last_gen, runs, calls, ticks, conc, probe>>

\* the statement _run_step_sql_execution hands to db.execute (lines 340-348)
Scoped_never(sql, dataset_id) == sql

Scoped(sql, dataset_id) ==
    IF dataset_id # NoDataset THEN enforce_dataset_filter(sql, "dataset_id") ELSE sql

\* sql_execution otherwise (lines 340-358, 462-465)
RunSqlExecution ==
    /\ Dispatching({"sql_execution"})
    /\ LET sql == run.step_outputs["sql_generation"].sql
       IN IF sql = NoSql
          THEN StepFailed /\ db_log' = db_log
          ELSE /\ ~(needs_approval(sql, run.auto_approve))
               /\ IF goal.dataset_id # NoDataset /\ HasLiteralDatasetFilter(sql, "dataset_id")
                  THEN StepFailed /\ db_log' = db_log
                  ELSE LET scoped == Scoped(sql, goal.dataset_id)
                       IN /\ db_log' = db_log \cup
                                {[sql |-> sql, scoped |-> scoped,
                                  auto_approve |-> run.auto_approve]}
                          /\ \E ok \in BOOLEAN :
                                IF ok
                                THEN StepCompleted(run.step_outputs,
                                                   [present |-> TRUE, sql |-> scoped])
                                ELSE StepFailed
    /\ UNCHANGED <<ret, active_plugin, cache, now, next_token, spent_tokens, validated,
                   rag_examples, last_gen, runs, calls, ticks, conc, probe>>

\* a test that only asks that no step is left pending
AllDone_no_pending(ss) == \A i \in 1..Len(ss) : ss[i].status # "pending"

AllDone(ss) == \A i \in 1..Len(ss) : ss[i].status \in {"completed", "skipped"}

\* lines 498-534: final Goal status, learning-loop write-back, working memory
Finalize ==
    /\ run.pc = "finalize"
    /\ LET status == IF AllDone(steps) THEN "completed"
                     ELSE IF goal.status \notin {"waiting_approval", "failed"}
                          THEN "in_progress" ELSE goal.status
           sql == run.step_outputs["sql_generation"].sql
       IN /\ goal' = [goal EXCEPT !.status = status, !.step_outputs = run.step_outputs]
          /\ rag_examples' = IF AllDone(steps) /\ sql # NoSql
                             THEN rag_examples \cup {sql} ELSE rag_examples
          /\ ret' = [status |-> status,
                     requires_human_approval |-> goal.requires_human_approval,
                     approval_token |-> IF goal.requires_human_approval
                                        THEN goal.approval_token ELSE NoToken,
                     executed_steps |-> run.executed_count]
    /\ run' = IdleRun
    /\ UNCHANGED <<steps, active_plugin, cache, now, next_token, spent_tokens, validated, db_log,
                   last_gen, runs, calls, ticks, conc, probe>>

\* ------------------------------------------------- other requests and time
\* set_active_plugin from another request, between runs
set_active_plugin ==
    /\ run.pc = "idle"
    /\ \E p \in Plugins : active_plugin' = p
    /\ UNCHANGED <<goal, steps, run, ret, cache, now, next_token, spent_tokens, validated, db_log,
                   rag_examples, last_gen, runs, calls, ticks, conc, probe>>

\* a generate_sql call from the chat path, between runs
GenerateSqlCall ==
    /\ run.pc = "idle"
    /\ calls < MaxCalls
    /\ \E q \in ChatQuestions, d \in DatasetIds, r1, r2 \in LlmResponses :
         LET g == generate_sql(q, d, DatasetVersion(d), active_plugin, cache, now, r1, r2)
         IN /\ cache' = g.store
            /\ validated' = validated \cup g.accepted
            /\ last_gen' = Outcome(g)
    /\ calls' = calls + 1
    /\ UNCHANGED <<goal, steps, run, ret, active_plugin, now, next_token, spent_tokens, db_log,
                   rag_examples, runs, ticks, conc, probe>>

\* a generate_sql call that passes feedback=...: the signature at
\* nl_to_sql.py:163 declares no such parameter, so the call raises TypeError
\* before the body runs; the cache is neither read nor written and the
\* text-generation backend is not called
GenerateSqlCallWithFeedback ==
    /\ run.pc = "idle"
    /\ calls < MaxCalls
    /\ \E q \in GoalTexts, d \in DatasetIds :
         last_gen' = [NoGen EXCEPT !.raised = TRUE, !.plugin = active_plugin,
                                   !.key = CacheKey(active_plugin, d, DatasetVersion(d), q),
                                   !.feedback = TRUE]
    /\ calls' = calls + 1
    /\ UNCHANGED <<goal, steps, run, ret, active_plugin, cache, now, next_token, spent_tokens, validated,
                   db_log, rag_examples, runs, ticks, conc, probe>>

\* the clock advances, by a second or by more than the cache's time-to-live
Tick ==
    /\ run.pc = "idle"
    /\ ticks < MaxTicks
    /\ \E d \in {1, LLM_SQL_CACHE_TTL_SECONDS + 1} : now' = now + d
    /\ ticks' = ticks + 1
    /\ UNCHANGED <<goal, steps, run, ret, active_plugin, cache, next_token, spent_tokens, validated,
                   db_log, rag_examples, last_gen, runs, calls, conc, probe>>

Next ==
    \/ run_agent_goal
    \/ approve_agent_goal
    \/ LoopExit
    \/ SkipBlocked
    \/ UnblockStep
    \/ MarkRunning
    \/ HandlerRaises
    \/ RunPlainStep
    \/ RunSqlGeneration
    \/ RunSqlVerifier
    \/ BlockForApproval
    \/ RunSqlExecution
    \/ Finalize

Spec == Init /\ [][Next]_vars

NextGen ==
    \/ set_active_plugin
    \/ GenerateSqlCall
    \/ GenerateSqlCallWithFeedback
    \/ Tick

\* the generation pipeline alone, called from the chat path
InitGen ==
    /\ create_goal_with_plan("retail", NoDataset, <<"Total", "sales", "today">>,
                             heuristic_plan(<<"Total", "sales", "today">>))
    /\ InitRest

SpecGen == InitGen /\ [][NextGen]_vars

\* ------------------------------------------- two overlapping execute_goal calls
\* Two requests call execute_goal on the same Goal, each with its own database
\* session, no approval token and the default step budget (which a plan of at
\* most eight steps never uses up).  One action per stretch of code between two
\* commits; a status is read as the other call last committed it.  What a
\* handler does is left open: it returns, raises, or (sql_execution) asks for
\* approval.  conc.dispatched records which call ran the handler of which step.
RunIds == {"a", "b"}

IdleCall == [pc |-> "idle", pending |-> <<>>, pos |-> 0, cur |-> 0]

InitConc ==
    /\ \E plan \in plan_goal(<<"Total", "sales", "today">>) :
          create_goal_with_plan("retail", NoDataset, <<"Total", "sales", "today">>, plan)
    /\ run = IdleRun
    /\ ret = NoReturn
    /\ active_plugin = NoPlugin
    /\ cache = <<>>
    /\ now = 0
    /\ next_token = 1
    /\ spent_tokens = {}
    /\ validated = {}
    /\ db_log = {}
    /\ rag_examples = {}
    /\ last_gen = NoGen
    /\ runs = 0
    /\ calls = 0
    /\ ticks = 0
    /\ probe = NoProbe
    /\ conc = [call |-> [r \in RunIds |-> IdleCall], dispatched |-> {}]

ConcRest == UNCHANGED <<run, ret, cache, now, validated, db_log, rag_examples,
                        last_gen, runs, calls, ticks, probe>>

ConcStep(r) == conc.call[r].pending[conc.call[r].pos]
ConcInLoop(r) == conc.call[r].pc = "loop" /\ conc.call[r].pos <= Len(conc.call[r].pending)

\* lines 414-426
ConcStart(r) ==
    /\ conc.call[r].pc = "idle"
    /\ active_plugin' = goal.plugin_id
    /\ goal' = [goal EXCEPT !.status = "in_progress"]
    /\ conc' = [conc EXCEPT !.call[r] = [pc |-> "loop", pending |-> pending_steps(steps),
                                         pos |-> 1, cur |-> 0]]
    /\ UNCHANGED <<steps, next_token, spent_tokens>>
    /\ ConcRest

\* line 426, the list is used up
ConcLoopExit(r) ==
    /\ conc.call[r].pc = "loop"
    /\ ~ConcInLoop(r)
    /\ conc' = [conc EXCEPT !.call[r].pc = "finalize"]
    /\ UNCHANGED <<goal, steps, active_plugin, next_token, spent_tokens>>
    /\ ConcRest

\* lines 429, 436-437
ConcSkipBlocked(r) ==
    /\ ConcInLoop(r)
    /\ steps[ConcStep(r)].status = "blocked"
    /\ conc' = [conc EXCEPT !.call[r].pos = @ + 1]
    /\ UNCHANGED <<goal, steps, active_plugin, next_token, spent_tokens>>
    /\ ConcRest

\* lines 439-441
ConcMarkRunning(r) ==
    /\ ConcInLoop(r)
    /\ steps[ConcStep(r)].status # "blocked"
    /\ steps' = [steps EXCEPT ![ConcStep(r)].status = "running"]
    /\ conc' = [conc EXCEPT !.call[r].pc = "dispatch", !.call[r].cur = ConcStep(r)]
    /\ UNCHANGED <<goal, active_plugin, next_token, spent_tokens>>
    /\ ConcRest

\* lines 443-488: the handler returned
ConcStepCompleted(r) ==
    /\ conc.call[r].pc = "dispatch"
    /\ steps' = [steps EXCEPT ![conc.call[r].cur].status = "completed"]
    /\ conc' = [conc EXCEPT !.call[r].pc = "loop", !.call[r].pos = @ + 1,
                            !.dispatched = @ \cup {<<r, conc.call[r].cur>>}]
    /\ UNCHANGED <<goal, active_plugin, next_token, spent_tokens>>
    /\ ConcRest

\* lines 489-496: the handler raised
ConcStepFailed(r) ==
    /\ conc.call[r].pc = "dispatch"
    /\ steps' = [steps EXCEPT ![conc.call[r].cur].status = "failed"]
    /\ goal' = [goal EXCEPT !.status = "failed"]
    /\ conc' = [conc EXCEPT !.call[r].pc = "finalize",
                            !.dispatched = @ \cup {<<r, conc.call[r].cur>>}]
    /\ UNCHANGED <<active_plugin, next_token, spent_tokens>>
    /\ ConcRest

\* lines 461-475: sql_execution asked for approval
ConcStepBlocked(r) ==
    /\ conc.call[r].pc = "dispatch"
    /\ steps[conc.call[r].cur].tool_name = "sql_execution"
    /\ steps' = [steps EXCEPT ![conc.call[r].cur].status = "blocked",
                              ![conc.call[r].cur].requires_approval = TRUE]
    /\ goal' = [goal EXCEPT !.status = "waiting_approval",
                            !.requires_human_approval = TRUE,
                            !.approval_token = token_urlsafe]
    /\ next_token' = next_token + 1
    /\ spent_tokens' = spent_tokens
    /\ conc' = [conc EXCEPT !.call[r].pc = "finalize",
                            !.dispatched = @ \cup {<<r, conc.call[r].cur>>}]
    /\ UNCHANGED active_plugin
    /\ ConcRest

\* lines 498-534
ConcFinalize(r) ==
    /\ conc.call[r].pc = "finalize"
    /\ goal' = [goal EXCEPT !.status =
                   IF AllDone(steps) THEN "completed"
                   ELSE IF goal.status \notin {"waiting_approval", "failed"}
                        THEN "in_progress" ELSE goal.status]
    /\ conc' = [conc EXCEPT !.call[r].pc = "done"]
    /\ UNCHANGED <<steps, active_plugin, next_token, spent_tokens>>
    /\ ConcRest

NextConc ==
    \/ \E r \in RunIds : ConcStart(r)
    \/ \E r \in RunIds : ConcLoopExit(r)
    \/ \E r \in RunIds : ConcSkipBlocked(r)
    \/ \E r \in RunIds : ConcMarkRunning(r)
    \/ \E r \in RunIds : ConcStepCompleted(r)
    \/ \E r \in RunIds : ConcStepFailed(r)
    \/ \E r \in RunIds : ConcStepBlocked(r)
    \/ \E r \in RunIds : ConcFinalize(r)

SpecConc == InitConc /\ [][NextConc]_vars

\* ------------------------------------------------- SQLGuard called directly
\* SQLGuard.validate and SQLGuard.enforce_dataset_filter applied to one
\* statement under one plugin's allowlist; probe holds the statement, the
\* call made last and what it returned or raised.

\* spellings of the forbidden keywords, each keyword at least once
KeywordSpellings ==
    {"DROP", "Drop", "drop", "DELETE", "Delete", "delete", "Insert", "UPDATE",
     "Create", "TRUNCATE", "Alter", "GRANT", "Revoke", "PRAGMA", "Vacuum",
     "ANALYZE", "Reindex"}

\* SELECT column FROM table, with and without an alias, with the tails the
\* checks tell apart
SingleTableStatements ==
    LET Columns == {"amount", "salary", "secret_column", "total_sales"}
        Tables == {"sales", "employees", "secret_table", "timestamp"}
        TableForms(t) == {<<t>>, <<t, "s">>, <<t, "AS", "s">>, <<t, "AS", t>>}
        Tails(c) == {<<>>,
                     <<"LIMIT", "5">>,
                     <<"LIMIT", ":limit">>,
                     <<"WHERE", c, ">", "0", "LIMIT", "5">>,
                     <<"WHERE", "dataset_id", "=", ":dataset_id">>,
                     <<"WHERE", "dataset_id", "=", "'d1'">>,
                     <<"WHERE", "'d1'", "=", "dataset_id">>,
                     <<"ORDER", "BY", c, "DESC">>}
    IN UNION {UNION {{<<"SELECT", c, "FROM">> \o f \o tail :
                            f \in TableForms(t), tail \in Tails(c)}
                        : t \in Tables} : c \in Columns}

KeywordStatements ==
    UNION {{<<"SELECT", "amount", "FROM", "sales", "WHERE", k>>,
            <<"Select", k, "FROM", "sales">>,
            <<k, "TABLE", "sales">>} : k \in KeywordSpellings}
        \cup {<<"DROP", "TABLE", "sales_transactions">>}

\* joins of the retail tables sales and stores on their column store_id:
\* aliases declared with AS, no aliases, bare aliases, and ORDER BY ... DESC
AllowedJoins ==
    LET on_alias == <<"ON", "s.store_id", "=", "c.store_id">>
        with_as == <<"SELECT", "s.amount", "FROM", "sales", "AS", "s",
                     "JOIN", "stores", "AS", "c">> \o on_alias
        qualified == <<"SELECT", "sales.amount", "FROM", "sales", "JOIN", "stores",
                       "ON", "sales.store_id", "=", "stores.store_id">>
        bare == <<"SELECT", "s.amount", "FROM", "sales", "s", "JOIN", "stores", "c">>
                    \o on_alias
    IN {with_as, qualified, bare,
        qualified \o <<"ORDER", "BY", "sales.amount", "DESC", "LIMIT", "5">>,
        bare \o <<"ORDER", "BY", "s.amount", "DESC", "LIMIT", "5">>}

GuardInputs ==
    SingleTableStatements \cup KeywordStatements \cup AllowedJoins
        \cup {<<"SELECT", "credit_limit", "FROM", "sales">>,
              <<"SELECT", "credit_limit", "FROM", "sales", "LIMIT", "5">>,
              <<"SELECT", "*", "FROM", "sales", "s", "JOIN", "secret_table", "c",
                "ON", "s.store_id", "=", "c.store_id">>,
              <<"SELECT", "sales.amount", "FROM", "sales",
                "JOIN", "secret_table", "AS", "secret_table",
                "ON", "sales.store_id", "=", "secret_table.store_id">>}

InitGuard ==
    /\ create_goal_with_plan("retail", NoDataset, <<"Total", "sales", "today">>,
                             heuristic_plan(<<"Total", "sales", "today">>))
    /\ run = IdleRun
    /\ ret = NoReturn
    /\ active_plugin = NoPlugin
    /\ cache = <<>>
    /\ now = 0
    /\ next_token = 1
    /\ spent_tokens = {}
    /\ validated = {}
    /\ db_log = {}
    /\ rag_examples = {}
    /\ last_gen = NoGen
    /\ runs = 0
    /\ calls = 0
    /\ ticks = 0
    /\ conc = NoConc
    /\ \E sql \in GuardInputs, p \in Plugins :
          probe = [NoProbe EXCEPT !.sql = sql, !.plugin = p]

\* SQLGuard.validate(sql) (lines 61-93)
Validate ==
    /\ probe' = [probe EXCEPT !.op = "validate",
                              !.ok = validate(probe.sql, probe.plugin),
                              !.error = validate_error(probe.sql, probe.plugin),
                              !.out = NoSql]
    /\ UNCHANGED <<goal, steps, run, ret, active_plugin, cache, now, next_token, spent_tokens,
                   validated, db_log, rag_examples, last_gen, runs, calls, ticks, conc>>

\* SQLGuard.enforce_dataset_filter(sql, "dataset_id") (lines 146-178)
EnforceDatasetFilter ==
    /\ probe' = IF HasLiteralDatasetFilter(probe.sql, "dataset_id")
                THEN [probe EXCEPT !.op = "enforce", !.ok = FALSE,
                                   !.error = "literal_filter", !.out = NoSql]
                ELSE [probe EXCEPT !.op = "enforce", !.ok = TRUE, !.error = "none",
                                   !.out = enforce_dataset_filter(probe.sql, "dataset_id")]
    /\ UNCHANGED <<goal, steps, run, ret, active_plugin, cache, now, next_token, spent_tokens,
                   validated, db_log, rag_examples, last_gen, runs, calls, ticks, conc>>

NextGuard == Validate \/ EnforceDatasetFilter

SpecGuard == InitGuard /\ [][NextGuard]_vars

\* ------------------------------------------------------- goal creation alone
\* create_goal_with_plan applied to one request; goal holds the request until
\* the row is written, probe.op names the planner path that was taken.
PlanTexts ==
    GoalTexts \cup
        {<<>>, <<"revenue", "last", "7", "days">>, <<"sales", "spike", "yesterday">>,
         <<"anomaly", "in", "revenue">>, <<"dropped", "orders">>, <<"outliers", "by", "region">>,
         <<"DROP", "in", "sales">>}

InitPlan ==
    /\ \E text \in PlanTexts, p \in Plugins, d \in DatasetIds :
          goal = [GoalRow(p, d, text) EXCEPT !.status = "requested"]
    /\ steps = <<>>
    /\ InitRest

\* plan_goal without a usable LLM plan (lines 184-185, 213-223), then
\* create_goal_with_plan (lines 234-270)
CreateGoalHeuristic ==
    /\ goal.status = "requested"
    /\ goal' = GoalRow(goal.plugin_id, goal.dataset_id, goal.goal_text)
    /\ steps' = StepRows(heuristic_plan(goal.goal_text))
    /\ probe' = [NoProbe EXCEPT !.op = "heuristic_plan"]
    /\ UNCHANGED <<run, ret, active_plugin, cache, now, next_token, spent_tokens, validated, db_log,
                   rag_examples, last_gen, runs, calls, ticks, conc>>

\* what the planner call of lines 203-209 may give: the planner is switched off
\* or not configured, the call raises, or it returns text.  A text is a sequence
\* of lines and a line a sequence of words, "|" being a word of its own.
PlannerAnswers ==
    LET line(tool) == <<tool, "|", "title">>
        twelve == [i \in 1..12 |-> line(IF i % 2 = 1 THEN "sql_generation" ELSE "sql_execution")]
    IN {[kind |-> "unavailable", lines |-> <<>>], [kind |-> "raises", lines |-> <<>>]}
       \cup {[kind |-> "text", lines |-> t] :
               t \in {<<>>,
                      <<line("sql_generation"), line("sql_execution"),
                        line("sql_execution"), line("summary_writer")>>,
                      <<line("send_email")>>,
                      <<line("send_email"), <<"sql_generation">>>>,
                      <<line("send_email"), line("sql_generation"), line("Sql_Execution"),
                        <<"sql", "execution", "|", "title">>>>,
                      twelve}}

\* a planner that takes every line's first word as a tool and keeps all lines
planner_steps_unchecked(goal_text, answer) ==
    IF answer.kind = "text" /\ answer.lines # <<>>
    THEN [i \in 1..Len(answer.lines) |-> answer.lines[i][1]]
    ELSE heuristic_plan(goal_text)

\* plan_goal, lines 184-221: the tool names of the returned steps.  A line
\* counts when it holds "|" and the text before the first "|" is a catalog
\* tool; at most MaxPlanSteps parsed steps are kept; with none the heuristic
\* plan stands
planner_steps(goal_text, answer) ==
    LET usable(l) == Len(l) >= 2 /\ l[2] = "|" /\ l[1] \in TOOL_CATALOG
        parsed == SelectSeq(answer.lines, usable)
        kept == SubSeq(parsed, 1, IF Len(parsed) > MaxPlanSteps THEN MaxPlanSteps ELSE Len(parsed))
    IN IF answer.kind = "text" /\ parsed # <<>>
       THEN [i \in 1..Len(kept) |-> kept[i][1]]
       ELSE heuristic_plan(goal_text)

\* plan_goal with the LLM planner switched on (lines 185-221)
CreateGoalLlm ==
    /\ goal.status = "requested"
    /\ goal' = GoalRow(goal.plugin_id, goal.dataset_id, goal.goal_text)
    /\ \E a \in PlannerAnswers :
         /\ steps' = StepRows(planner_steps(goal.goal_text, a))
         /\ probe' = [NoProbe EXCEPT !.op = "llm_plan", !.error = a.kind, !.sql = a.lines]
    /\ UNCHANGED <<run, ret, active_plugin, cache, now, next_token, spent_tokens, validated, db_log,
                   rag_examples, last_gen, runs, calls, ticks, conc>>

NextPlan == CreateGoalHeuristic \/ CreateGoalLlm

SpecPlan == InitPlan /\ [][NextPlan]_vars

\* ------------------------------------- generate_sql beside set_active_plugin
\* Chat and agent requests run on worker threads of one process; ACTIVE_PLUGIN
\* and SQL_GUARD are module globals (nl_to_sql.py:21-22) that generate_sql reads
\* statement by statement.  Here conc holds the generate_sql call in flight,
\* the plugin a set_active_plugin call is half-way through installing, and
\* SQL_GUARD (the plugin whose allowlist the guard object carries);
\* active_plugin is ACTIVE_PLUGIN.
IdleGen ==
    [pc |-> "idle", query |-> <<>>, dataset_id |-> NoDataset, started |-> NoPlugin,
     policy |-> NoPlugin, key |-> CacheKey(NoPlugin, NoDataset, 0, <<>>),
     attempts |-> 0, last_error |-> "none", guards |-> {}, sql |-> NoSql]

InitSwitch ==
    /\ create_goal_with_plan("retail", NoDataset, <<"Total", "sales", "today">>,
                             heuristic_plan(<<"Total", "sales", "today">>))
    /\ run = IdleRun
    /\ ret = NoReturn
    /\ active_plugin = NoPlugin
    /\ cache = <<>>
    /\ now = 0
    /\ next_token = 1
    /\ spent_tokens = {}
    /\ validated = {}
    /\ db_log = {}
    /\ rag_examples = {}
    /\ last_gen = NoGen
    /\ runs = 0
    /\ calls = 0
    /\ ticks = 0
    /\ probe = NoProbe
    /\ conc = [call |-> IdleGen, setting |-> NoPlugin, sql_guard |-> NoPlugin]

SwitchRest == UNCHANGED <<goal, steps, run, ret, now, next_token, spent_tokens, db_log,
                          rag_examples, runs, ticks, probe>>

\* set_active_plugin, line 128: ACTIVE_PLUGIN is assigned
SetActivePluginAssign ==
    /\ conc.setting = NoPlugin
    /\ \E p \in Plugins :
         /\ active_plugin' = p
         /\ conc' = [conc EXCEPT !.setting = p]
    /\ UNCHANGED <<cache, validated, last_gen, calls>>
    /\ SwitchRest

\* set_active_plugin, line 147: SQL_GUARD is built from the plugin's allowlist
SetActivePluginGuard ==
    /\ conc.setting # NoPlugin
    /\ conc' = [conc EXCEPT !.sql_guard = conc.setting, !.setting = NoPlugin]
    /\ UNCHANGED <<active_plugin, cache, validated, last_gen, calls>>
    /\ SwitchRest

\* the call has returned or raised
GenEnd(call, raised, result, llm_calls) ==
    /\ conc' = [conc EXCEPT !.call = [call EXCEPT !.pc = IF raised THEN "raised" ELSE "done"]]
    /\ last_gen' = [NoGen EXCEPT !.raised = raised, !.result = result, !.llm_calls = llm_calls,
                                 !.plugin = call.started, !.key = call.key]

\* generate_sql, lines 168-191: no active plugin raises, a non-analytics
\* intent returns at once
GenStart ==
    /\ conc.call.pc \in {"idle", "done", "raised"}
    /\ calls < MaxCalls
    /\ calls' = calls + 1
    \* one question per outcome of the policy check
    /\ \E q \in {<<"Total", "sales", "today">>, <<"total", "salary", "paid">>}, d \in {"d1"} :
         LET call == [IdleGen EXCEPT !.query = q, !.dataset_id = d, !.started = active_plugin]
             intent == classify_intent(q)
         IN IF active_plugin = NoPlugin THEN GenEnd(call, TRUE, NoResult, 0)
            ELSE IF intent # "analytics_query"
                 THEN GenEnd(call, FALSE,
                             [NoResult EXCEPT !.intent = intent,
                                  !.failure_reason = IF intent = "unsupported"
                                                     THEN "unsupported_intent"
                                                     ELSE "clarification_required"], 0)
            ELSE /\ conc' = [conc EXCEPT !.call = [call EXCEPT !.pc = "policy"]]
                 /\ last_gen' = last_gen
    /\ UNCHANGED <<active_plugin, cache, validated>>
    /\ SwitchRest

\* lines 194-196: the question is checked against ACTIVE_PLUGIN's policy
GenPolicy ==
    /\ conc.call.pc = "policy"
    /\ LET call == [conc.call EXCEPT !.policy = active_plugin]
       IN IF validate_question(call.query, active_plugin)
          THEN /\ conc' = [conc EXCEPT !.call = [call EXCEPT !.pc = "key"]]
               /\ last_gen' = last_gen
          ELSE GenEnd(call, TRUE, NoResult, 0)
    /\ UNCHANGED <<active_plugin, cache, validated, calls>>
    /\ SwitchRest

\* lines 210-237: the cache key is built from ACTIVE_PLUGIN.plugin_name and
\* looked up
GenKey ==
    /\ conc.call.pc = "key"
    /\ LET key == CacheKey(active_plugin, conc.call.dataset_id,
                           DatasetVersion(conc.call.dataset_id), conc.call.query)
           got == cache_get(cache, key, now)
           call == [conc.call EXCEPT !.key = key]
       IN /\ cache' = got.store
          /\ IF got.value # NoSql
             THEN GenEnd(call, FALSE,
                         [sql |-> got.value, confidence |-> "high",
                          intent |-> "analytics_query", repairs |-> 0,
                          failure_reason |-> "none", cache_hit |-> TRUE], 0)
             ELSE /\ conc' = [conc EXCEPT !.call = [call EXCEPT !.pc = "attempt"]]
                  /\ last_gen' = last_gen
    /\ UNCHANGED <<active_plugin, validated, calls>>
    /\ SwitchRest

\* lines 243-278, one pass of the loop: the candidate is normalized with
\* ACTIVE_PLUGIN's time column and validated by SQL_GUARD; with SQL_GUARD still
\* None the call to validate raises AttributeError
GenAttempt ==
    /\ conc.call.pc = "attempt"
    /\ conc.call.sql = NoSql
    /\ conc.call.attempts < MaxAttempts
    \* the backend answers with a statement for either tenant, or not at all
    /\ \E r \in {T_ok, T_hr, NoSql} :
         LET c == Candidate(r, active_plugin)
             tried == [conc.call EXCEPT !.attempts = @ + 1]
         IN IF r = NoSql
            THEN /\ conc' = [conc EXCEPT !.call = [tried EXCEPT !.last_error = "llm_unavailable"]]
                 /\ UNCHANGED <<validated, last_gen>>
            ELSE IF conc.sql_guard = NoPlugin
            THEN /\ GenEnd(tried, TRUE, NoResult, tried.attempts)
                 /\ validated' = validated
            ELSE IF guard_passes(c, conc.sql_guard)
            THEN /\ conc' = [conc EXCEPT !.call = [tried EXCEPT !.sql = c,
                                                       !.guards = @ \cup {conc.sql_guard}]]
                 /\ validated' = validated \cup {<<conc.sql_guard, c>>}
                 /\ last_gen' = last_gen
            ELSE /\ conc' = [conc EXCEPT !.call = [tried EXCEPT !.last_error = "guard_error",
                                                       !.guards = @ \cup {conc.sql_guard}]]
                 /\ UNCHANGED <<validated, last_gen>>
    /\ UNCHANGED <<active_plugin, cache, calls>>
    /\ SwitchRest

\* lines 280-309: the result is built, a statement is stored under the key
GenReturn ==
    /\ conc.call.pc = "attempt"
    /\ conc.call.sql # NoSql \/ conc.call.attempts = MaxAttempts
    /\ LET call == conc.call
       IN /\ GenEnd(call, FALSE,
                    [sql |-> call.sql,
                     confidence |-> Confidence(call.sql, call.attempts),
                     intent |-> "analytics_query",
                     repairs |-> call.attempts - 1,
                     failure_reason |-> IF call.sql # NoSql THEN "none" ELSE call.last_error,
                     cache_hit |-> FALSE], call.attempts)
          /\ cache' = IF call.sql # NoSql
                      THEN cache_set(cache, call.key, call.sql, LLM_SQL_CACHE_TTL_SECONDS, now)
                      ELSE cache
    /\ UNCHANGED <<active_plugin, validated, calls>>
    /\ SwitchRest

NextSwitch ==
    \/ SetActivePluginAssign
    \/ SetActivePluginGuard
    \/ GenStart
    \/ GenPolicy
    \/ GenKey
    \/ GenAttempt
    \/ GenReturn

SpecSwitch == InitSwitch /\ [][NextSwitch]_vars

\* --------------------------------------------- _MemoryCache under two requests
\* Two request threads call _MemoryCache.get and _MemoryCache.set on one key.
\* Each call reads the clock first (lines 20, 32), then takes self.lock
\* (lines 21, 33).  conc holds each thread's call, the holder of the lock and
\* the history of what the sets have written.
CacheKeyInput == CacheKey("retail", "d1", 1, <<"total", "sales", "today">>)
IdleOp ==
    [pc |-> "idle", op |-> "none", value |-> NoSql, t |-> 0,
     val |-> [exp |-> -1, sql |-> NoSql], ret |-> NoSql]

InitCache ==
    /\ create_goal_with_plan("retail", NoDataset, <<"Total", "sales", "today">>,
                             heuristic_plan(<<"Total", "sales", "today">>))
    /\ run = IdleRun
    /\ ret = NoReturn
    /\ active_plugin = NoPlugin
    /\ cache = <<>>
    /\ now = 0
    /\ next_token = 1
    /\ spent_tokens = {}
    /\ validated = {}
    /\ db_log = {}
    /\ rag_examples = {}
    /\ last_gen = NoGen
    /\ runs = 0
    /\ calls = 0
    /\ ticks = 0
    /\ probe = NoProbe
    /\ conc = [call |-> [r \in RunIds |-> IdleOp], lock |-> "none", written |-> {}]

\* a lock that never keeps a thread out
LockFree_always(r) == TRUE

\* `with self.lock` (lines 21, 33): no other thread is inside
LockFree(r) == conc.lock \in {"none", r}

\* lines 20 and 32: the call begins and reads time.time()
CacheStart(r) ==
    /\ conc.call[r].pc \in {"idle", "done"}
    /\ calls < MaxCacheOps
    /\ calls' = calls + 1
    /\ \E op \in {"get", "set"}, v \in {T_ok, T_hr} :
         conc' = [conc EXCEPT !.call[r] = [IdleOp EXCEPT !.pc = "start", !.op = op, !.t = now,
                                               !.value = IF op = "set" THEN v ELSE NoSql]]
    /\ UNCHANGED <<goal, steps, run, ret, active_plugin, cache, now, next_token, spent_tokens,
                   validated, db_log, rag_examples, last_gen, runs, ticks, probe>>

\* the lock is taken.  set stores (exp, value) and leaves (lines 33-34); get
\* looks the key up (lines 21-24) and leaves at once when there is no entry
CacheEnter(r) ==
    /\ conc.call[r].pc = "start"
    /\ LockFree(r)
    /\ LET c == conc.call[r]
           entry == [exp |-> c.t + LLM_SQL_CACHE_TTL_SECONDS, sql |-> c.value]
       IN IF c.op = "set"
          THEN /\ cache' = [k \in DOMAIN cache \cup {CacheKeyInput} |->
                               IF k = CacheKeyInput THEN entry ELSE cache[k]]
               /\ conc' = [conc EXCEPT !.call[r].pc = "done",
                                       !.written = @ \cup {entry}]
          ELSE IF CacheKeyInput \notin DOMAIN cache
          THEN /\ conc' = [conc EXCEPT !.call[r].pc = "done"]
               /\ cache' = cache
          ELSE /\ conc' = [conc EXCEPT !.call[r].pc = "inside",
                                       !.call[r].val = cache[CacheKeyInput],
                                       !.lock = r]
               /\ cache' = cache
    /\ UNCHANGED <<goal, steps, run, ret, active_plugin, now, next_token, spent_tokens,
                   validated, db_log, rag_examples, last_gen, runs, calls, ticks, probe>>

\* get, lines 25-29: an expired entry is popped and nothing returned, a live
\* one is returned; the lock is given back
GetFinish(r) ==
    /\ conc.call[r].pc = "inside"
    /\ LET c == conc.call[r]
       IN IF c.val.exp < c.t
          THEN /\ cache' = [k \in DOMAIN cache \ {CacheKeyInput} |-> cache[k]]
               /\ conc' = [conc EXCEPT !.call[r].pc = "done", !.lock = "none"]
          ELSE /\ cache' = cache
               /\ conc' = [conc EXCEPT !.call[r].pc = "done", !.call[r].ret = c.val.sql,
                                       !.lock = "none"]
    /\ UNCHANGED <<goal, steps, run, ret, active_plugin, now, next_token, spent_tokens,
                   validated, db_log, rag_examples, last_gen, runs, calls, ticks, probe>>

NextCache ==
    \/ \E r \in RunIds : CacheStart(r)
    \/ \E r \in RunIds : CacheEnter(r)
    \/ \E r \in RunIds : GetFinish(r)
    \/ Tick

SpecCache == InitCache /\ [][NextCache]_vars

\* ------------------------------------------------------------------ claims
StepCount == Len(steps)
CurTool == steps[run.cur].tool_name
CurSql == run.step_outputs["sql_generation"].sql

C3_SqlOnlyIfValidated ==
    /\ last_gen.result.sql # NoSql =>
          <<last_gen.plugin, last_gen.result.sql>> \in validated
    /\ last_gen.failed_attempts = MaxAttempts => last_gen.result.sql = NoSql

\* C3 witness: a result served from the cache carries a statement, after an
\* earlier call generated it.
C3_Witness ==
    /\ last_gen.result.cache_hit
    /\ last_gen.result.sql # NoSql
    /\ calls = 2

\* C3, the other case: two attempts failed and the result has no statement.
C3_WitnessFailed ==
    /\ last_gen.failed_attempts = MaxAttempts
    /\ last_gen.llm_calls = MaxAttempts
    /\ last_gen.result.sql = NoSql

\* C4: the step of order N+1 is never set to running while the step of order N
\* is pending.
C4_InOrder ==
    [][\A n \in 1..(StepCount - 1) :
          (steps[n + 1].status # "running" /\ steps'[n + 1].status = "running")
              => (steps[n].status # "pending" /\ steps'[n].status # "pending")]_vars

\* C4 witness: in a second run on the Goal, a step is running with its
\* predecessor completed and its successor still pending.
C4_Witness ==
    /\ runs = 2
    /\ \E n \in 2..(StepCount - 1) :
          /\ steps[n].status = "running"
          /\ steps[n - 1].status = "completed"
          /\ steps[n + 1].status = "pending"

C6_GoalStatusEdges ==
    [][goal'.status # goal.status =>
          /\ <<goal.status, goal'.status>> \in
                {<<"open", "in_progress">>, <<"in_progress", "waiting_approval">>,
                 <<"in_progress", "failed">>, <<"in_progress", "completed">>,
                 <<"waiting_approval", "in_progress">>}
          /\ (goal.status = "waiting_approval" =>
                /\ run'.approval_token # NoToken
                /\ run'.approval_token = goal.approval_token)]_vars

\* C7: sql_execution reached with risky SQL and auto_approve false: the step
\* becomes blocked with requires_approval, the Goal stores a non-empty token
\* and becomes waiting_approval, the step is not counted as executed, nothing
\* is sent to the database, no later step is dispatched in the run, and the
\* run returns waiting_approval with the token.
C7_RiskyBlocks ==
    [][/\ (/\ run.pc = "dispatch"
           /\ CurTool = "sql_execution"
           /\ CurSql # NoSql
           /\ is_risky_sql(CurSql)
           /\ ~run.auto_approve)
          => /\ steps'[run.cur].status = "blocked"
             /\ steps'[run.cur].requires_approval
             /\ goal'.approval_token # NoToken
             /\ goal'.requires_human_approval
             /\ goal'.status = "waiting_approval"
             /\ run'.executed_count = run.executed_count
             /\ run'.pc = "finalize"
             /\ db_log' = db_log
       /\ (run.pc = "finalize" /\ goal.status = "waiting_approval")
          => /\ ret'.status = "waiting_approval"
             /\ ret'.approval_token = goal.approval_token
             /\ ret'.approval_token # NoToken
             /\ steps' = steps]_vars

\* C7 witness: a run has returned waiting_approval with the sql_execution step
\* blocked and a later step still pending.
C7_Witness ==
    /\ run.pc = "idle"
    /\ ret.status = "waiting_approval"
    /\ ret.approval_token # NoToken
    /\ \E i \in 1..(StepCount - 1) :
          /\ steps[i].tool_name = "sql_execution"
          /\ steps[i].status = "blocked"
          /\ steps[i].requires_approval
          /\ steps[i + 1].status = "pending"

C11_CompletedIffAllDone ==
    (run.pc = "idle" /\ runs > 0) =>
        (goal.status = "completed"
            <=> \A i \in 1..StepCount : steps[i].status \in {"completed", "skipped"})

\* C11 witness: a run has ended with every step completed and the Goal
\* completed, after an earlier run that left the Goal in_progress.
C11_Witness ==
    /\ run.pc = "idle" /\ runs = 2
    /\ goal.status = "completed"
    /\ ret.status = "completed"
    /\ \A i \in 1..StepCount : steps[i].status = "completed"
    /\ ret.executed_steps < StepCount

C13_NoStepRunByBoth ==
    \A i \in 1..StepCount : ~({<<"a", i>>, <<"b", i>>} \subseteq conc.dispatched)

C15_AttemptsAndConfidence ==
    /\ (~last_gen.raised /\ last_gen.result.intent = "analytics_query"
            /\ ~last_gen.result.cache_hit)
          => last_gen.llm_calls \in 1..MaxAttempts
    /\ last_gen.llm_calls > 0
          => /\ last_gen.llm_calls <= MaxAttempts
             /\ last_gen.llm_calls =
                   last_gen.failed_attempts + (IF last_gen.result.sql # NoSql THEN 1 ELSE 0)
             /\ last_gen.result.sql # NoSql
                   => <<last_gen.plugin, last_gen.result.sql>> \in validated
             /\ last_gen.result.confidence = "high"
                   <=> (last_gen.result.sql # NoSql /\ last_gen.failed_attempts = 0)
             /\ last_gen.result.confidence = "medium"
                   <=> (last_gen.result.sql # NoSql /\ last_gen.failed_attempts > 0)
             /\ last_gen.result.confidence = "low" <=> last_gen.result.sql = NoSql
             /\ last_gen.result.repairs = last_gen.llm_calls - 1

\* C15 witness: the first candidate was rejected, the second accepted.
C15_Witness ==
    /\ last_gen.llm_calls = MaxAttempts
    /\ last_gen.failed_attempts = 1
    /\ last_gen.result.sql # NoSql
    /\ last_gen.result.confidence = "medium"
    /\ last_gen.result.repairs = 1

\* C16: SQLGuard.validate fails for every statement that holds a forbidden
\* keyword as a whole word, whatever its letter case and position.
C16_ForbiddenKeywordFails ==
    (probe.op = "validate"
        /\ \E i \in 1..Len(probe.sql) : probe.sql[i] \in KeywordSpellings)
      => (~probe.ok /\ probe.error # "none")

\* C16 witness: a mixed-case keyword in a statement that begins with SELECT
\* was rejected by the keyword check.
C16_Witness ==
    /\ probe.op = "validate"
    /\ probe.sql = <<"Select", "Delete", "FROM", "sales">>
    /\ probe.plugin = "retail"
    /\ ~probe.ok
    /\ probe.error = "forbidden_keyword"

\* C17 as stated: a statement that does not begin with SELECT and holds a
\* forbidden keyword (DROP TABLE sales_transactions) is reported as a
\* forbidden-keyword failure.
C17_NonSelectReportedAsKeyword ==
    (probe.op = "validate"
        /\ probe.sql[1] \notin {"SELECT", "Select", "select"}
        /\ \E i \in 1..Len(probe.sql) : probe.sql[i] \in KeywordSpellings)
      => (~probe.ok /\ probe.error = "forbidden_keyword")

\* C17 amended: validate fails for both kinds of statement, and reports the
\* first check that fails: a statement that does not begin with SELECT is
\* reported as not being a SELECT statement, whatever keywords it holds; a
\* statement that begins with SELECT and holds a forbidden keyword is reported
\* as a forbidden-keyword failure.
C17_FirstFailingCheckReported ==
    probe.op = "validate" =>
        /\ probe.ok <=> probe.error = "none"
        /\ probe.sql[1] \notin {"SELECT", "Select", "select"}
              => (~probe.ok /\ probe.error = "not_select")
        /\ (probe.sql[1] \in {"SELECT", "Select", "select"}
                /\ \E i \in 1..Len(probe.sql) : probe.sql[i] \in KeywordSpellings)
              => (~probe.ok /\ probe.error = "forbidden_keyword")

\* C17 witness: DROP TABLE sales_transactions was rejected as not being a
\* SELECT statement.
C17_Witness ==
    /\ probe.op = "validate"
    /\ probe.sql = <<"DROP", "TABLE", "sales_transactions">>
    /\ ~probe.ok
    /\ probe.error = "not_select"

\* C18 as stated: validate fails for every statement whose table after FROM or
\* JOIN, or whose selected column, is in neither the allowed table set nor the
\* allowed column set of the plugin, whatever aliases it declares.
C18_OutsideAllowlistFails ==
    LET sql == probe.sql
        allowed == allowed_tables(probe.plugin) \cup allowed_columns(probe.plugin)
        reads_outside ==
            \/ \E i \in 1..Len(sql) - 1 :
                  sql[i] \in {"FROM", "JOIN"} /\ sql[i + 1] \notin allowed
            \/ /\ Len(sql) >= 3 /\ sql[1] = "SELECT" /\ sql[3] = "FROM"
               /\ sql[2] \notin allowed \cup {"*"}
    IN (probe.op = "validate" /\ reads_outside) => ~probe.ok

\* C19 as stated: validate returns True for every join of allowed tables on
\* allowed columns, bare aliases and ORDER BY ... DESC included.
C19_AllowedJoinsPass ==
    (probe.op = "validate" /\ probe.plugin = "retail" /\ probe.sql \in AllowedJoins)
      => (probe.ok /\ probe.error = "none")

\* C20 as stated: enforce_dataset_filter raises, and returns no statement,
\* whenever the statement holds an equality between dataset_id and a quoted
\* literal, with the literal on either side.
C20_LiteralEqualityRaises ==
    LET sql == probe.sql
        literal_equality ==
            \E i \in 1..Len(sql) - 2 :
                /\ sql[i + 1] = "="
                /\ \/ sql[i] = "dataset_id" /\ sql[i + 2] = "'d1'"
                   \/ sql[i] = "'d1'" /\ sql[i + 2] = "dataset_id"
    IN (probe.op = "enforce" /\ literal_equality)
          => (~probe.ok /\ probe.error = "literal_filter" /\ probe.out = NoSql)

\* C21 as stated: for a statement that does not name dataset_id,
\* enforce_dataset_filter returns a statement with exactly one predicate on
\* dataset_id, and that predicate stands before every LIMIT keyword.
C21_OnePredicateBeforeLimit ==
    LET out == probe.out
        predicates == {i \in 1..Len(out) - 2 :
                          /\ "dataset_id" \in WordIdents(out[i])
                          /\ out[i + 1] = "="
                          /\ out[i + 2] = ":dataset_id"}
    IN (probe.op = "enforce" /\ "dataset_id" \notin Identifiers(probe.sql))
          => /\ probe.ok
             /\ Cardinality(predicates) = 1
             /\ \A i \in predicates : \A j \in 1..Len(out) :
                    out[j] \in {"LIMIT", "limit"} => i < j

\* C22 as stated: for the goal text "revenue last 7 days" the heuristic plan
\* has exactly 6 steps, none of them anomaly_scan, the last summary_writer.
C22_RevenuePlanHasSixSteps ==
    (probe.op = "heuristic_plan" /\ goal.goal_text = <<"revenue", "last", "7", "days">>)
      => /\ Len(steps) = 6
         /\ \A i \in 1..Len(steps) : steps[i].tool_name # "anomaly_scan"
         /\ steps[Len(steps)].tool_name = "summary_writer"

\* C22 amended: for the goal text "revenue last 7 days" the heuristic plan is
\* exactly the 7-step base pipeline schema_retrieval, kb_retrieval,
\* example_retrieval, sql_generation, sql_verifier, sql_execution,
\* summary_writer, every step pending, with no anomaly_scan step.
C22_RevenuePlanIsBasePipeline ==
    (probe.op = "heuristic_plan" /\ goal.goal_text = <<"revenue", "last", "7", "days">>)
      => /\ goal.status = "open"
         /\ [i \in 1..Len(steps) |-> steps[i].tool_name] =
               <<"schema_retrieval", "kb_retrieval", "example_retrieval",
                 "sql_generation", "sql_verifier", "sql_execution", "summary_writer">>
         /\ \A i \in 1..Len(steps) : steps[i].status = "pending"

\* C22 witness: the Goal for "revenue last 7 days" was created by the
\* heuristic path with summary_writer as its 7th and last step.
C22_Witness ==
    /\ probe.op = "heuristic_plan"
    /\ goal.goal_text = <<"revenue", "last", "7", "days">>
    /\ goal.status = "open"
    /\ Len(steps) = 7
    /\ steps[7].tool_name = "summary_writer"

\* C23 as stated: a generate_sql call made with feedback, for an analytics
\* question the active plugin's policy accepts, does not return the cached
\* result even when one is stored: it calls the text-generation backend and
\* returns without raising.
C23_FeedbackBypassesCache ==
    (/\ last_gen.feedback
     /\ last_gen.plugin # NoPlugin
     /\ classify_intent(last_gen.key.question) = "analytics_query"
     /\ validate_question(last_gen.key.question, last_gen.plugin))
      => /\ ~last_gen.raised
         /\ ~last_gen.result.cache_hit
         /\ last_gen.llm_calls >= 1

\* C24: in a generate_sql call that reaches the cache, an entry that has not
\* expired is returned as it was stored; an expired entry is not returned and
\* is removed (the key is absent afterwards unless the same call stored a
\* newly generated statement); a stored statement gets the expiry now + ttl.
C24_CacheRoundTrip ==
    [][(/\ calls' = calls + 1
        /\ ~last_gen'.feedback /\ ~last_gen'.raised
        /\ last_gen'.result.intent = "analytics_query")
          => LET k == last_gen'.key
                 fresh == k \in DOMAIN cache /\ cache[k].exp >= now
                 stale == k \in DOMAIN cache /\ cache[k].exp < now
                 stored == [exp |-> now + LLM_SQL_CACHE_TTL_SECONDS,
                            sql |-> last_gen'.result.sql]
             IN /\ last_gen'.result.cache_hit <=> fresh
                /\ fresh => (last_gen'.result.sql = cache[k].sql /\ cache' = cache)
                /\ stale => (k \notin DOMAIN cache' \/ cache'[k] = stored)
                /\ ~fresh => IF last_gen'.result.sql # NoSql
                             THEN k \in DOMAIN cache' /\ cache'[k] = stored
                             ELSE k \notin DOMAIN cache'
                /\ \A j \in DOMAIN cache \ {k} : j \in DOMAIN cache' /\ cache'[j] = cache[j]]_vars

\* C24 witness: the only entry ever stored has expired and a later call, whose
\* own attempts all failed, found it expired and removed it.
C24_Witness ==
    /\ calls = 2
    /\ now > LLM_SQL_CACHE_TTL_SECONDS
    /\ validated # {}
    /\ cache = <<>>
    /\ ~last_gen.result.cache_hit
    /\ last_gen.result.sql = NoSql
    /\ last_gen.llm_calls = MaxAttempts
    /\ \A v \in validated : v[1] = last_gen.plugin

\* C25: over any sequence of execute_goal runs, a step's status changes only
\* pending -> running, running -> completed, running -> failed, running ->
\* blocked and blocked -> pending, the last only in a run whose approval token
\* is the Goal's stored token.
C25_StepStatusEdges ==
    [][\A i \in 1..StepCount :
          steps'[i].status # steps[i].status
            => /\ <<steps[i].status, steps'[i].status>> \in
                      {<<"pending", "running">>, <<"running", "completed">>,
                       <<"running", "failed">>, <<"running", "blocked">>,
                       <<"blocked", "pending">>}
               /\ steps[i].status = "blocked"
                    => /\ run.pc # "idle"
                       /\ run.approval_token # NoToken
                       /\ run.approval_token = goal.approval_token]_vars

\* C25 witness: a step that was blocked has been reset by a run that supplied
\* the stored token, set running again and completed.
C25_Witness ==
    /\ run.unblocked # 0
    /\ run.matched
    /\ steps[run.unblocked].status = "completed"
    /\ steps[run.unblocked].requires_approval

\* C26: one execute_goal run marks at most max_steps steps completed, the
\* returned executed_steps is the number of steps that run marked completed, and
\* a run that stops on the budget with steps still pending (no failure, no
\* block) leaves the Goal in_progress.
C26_BudgetBoundsCompletedSteps ==
    [][(run.pc = "finalize" /\ run'.pc = "idle")
         => LET done == Cardinality({i \in 1..Len(run.pending) :
                                        steps[run.pending[i]].status = "completed"})
                blocked_now == run.cur # 0 /\ steps[run.cur].status = "blocked"
                on_budget == /\ run.pos <= Len(run.pending)
                             /\ run.executed_count >= run.max_steps
                             /\ ~run.raised
                             /\ ~blocked_now
            IN /\ done <= run.max_steps
               /\ ret'.executed_steps = done
               /\ (on_budget /\ \E i \in 1..StepCount : steps[i].status = "pending")
                    => /\ goal'.status = "in_progress"
                       /\ ret'.status = "in_progress"]_vars

\* C26 as the code has it: the bound is max_steps for a positive budget and zero
\* for a budget of zero or less.
C26_BudgetBoundsCompletedStepsFromZero ==
    [][(run.pc = "finalize" /\ run'.pc = "idle")
         => LET done == Cardinality({i \in 1..Len(run.pending) :
                                        steps[run.pending[i]].status = "completed"})
                blocked_now == run.cur # 0 /\ steps[run.cur].status = "blocked"
                on_budget == /\ run.pos <= Len(run.pending)
                             /\ run.executed_count >= run.max_steps
                             /\ ~run.raised
                             /\ ~blocked_now
            IN /\ done <= (IF run.max_steps > 0 THEN run.max_steps ELSE 0)
               /\ ret'.executed_steps = done
               /\ (on_budget /\ \E i \in 1..StepCount : steps[i].status = "pending")
                    => /\ goal'.status = "in_progress"
                       /\ ret'.status = "in_progress"]_vars

\* C26 witness: a run with a budget of one has returned after completing one
\* step, steps are still pending, none failed or blocked, the Goal is in_progress.
C26_Witness ==
    /\ run.pc = "idle"
    /\ ret.executed_steps = 1
    /\ ret.status = "in_progress"
    /\ goal.status = "in_progress"
    /\ \E i \in 1..StepCount : steps[i].status = "pending"
    /\ \A i \in 1..StepCount : steps[i].status \notin {"failed", "blocked", "running"}

\* C27: when both attempts of a generate_sql call are rejected by SQL Guard, the
\* call returns sql = null, confidence low and failure reason
\* generation_failed, after exactly one additional attempt.
C27_RejectedTwiceIsGenerationFailed ==
    [][\A q \in GoalTexts, d \in DatasetIds, r1, r2 \in LlmSqlTexts :
          LET g == generate_sql(q, d, DatasetVersion(d), active_plugin, cache, now, r1, r2)
          IN (/\ calls' = calls + 1
              /\ ~last_gen'.feedback
              /\ ~g.raised
              /\ last_gen' = Outcome(g)
              /\ cache' = g.store
              /\ g.result.intent = "analytics_query"
              /\ ~g.result.cache_hit
              /\ ~Attempt[r1][active_plugin].kept
              /\ ~Attempt[r2][active_plugin].kept)
             => /\ g.result.sql = NoSql
                /\ g.result.confidence = "low"
                /\ g.result.repairs = 1
                /\ g.llm_calls = MaxAttempts
                /\ g.result.failure_reason = "generation_failed"]_vars

\* C28: for a question classified unsupported or needs_clarification, a
\* generate_sql call (made, as every caller does, with a tenant active) returns
\* sql = null and a stated failure reason; it does not raise on the tenant
\* policy, leaves the cache as it was and calls no backend.
C28_NonAnalyticsShortCircuits ==
    [][(/\ calls' = calls + 1
        /\ ~last_gen'.feedback
        /\ active_plugin # NoPlugin
        /\ classify_intent(last_gen'.key.question) \in {"unsupported", "needs_clarification"})
         => /\ ~last_gen'.raised
            /\ last_gen'.result.sql = NoSql
            /\ last_gen'.result.intent = classify_intent(last_gen'.key.question)
            /\ last_gen'.result.failure_reason \in {"unsupported_intent", "clarification_required"}
            /\ ~last_gen'.result.cache_hit
            /\ last_gen'.llm_calls = 0
            /\ cache' = cache
            /\ validated' = validated]_vars

\* C28 witness: a too-short question that names a topic the retail policy
\* forbids was answered with clarification_required under retail, with a live
\* cache entry left in place.
C28_Witness ==
    /\ last_gen.plugin = "retail"
    /\ ~last_gen.raised
    /\ last_gen.key.question = <<"salary">>
    /\ last_gen.result.failure_reason = "clarification_required"
    /\ last_gen.llm_calls = 0
    /\ cache # <<>>

\* C29: an approval token is one-time: a token that a run has accepted to
\* unblock a step of the Goal is not accepted again by a later run.
C29_TokenAcceptedOnce ==
    [][\A i \in 1..StepCount :
          (steps[i].status = "blocked" /\ steps'[i].status = "pending")
            => /\ run.approval_token \notin spent_tokens
               /\ goal'.approval_token = NoToken]_vars

\* C29 witness: a token was accepted, the step was blocked again under a new
\* token, and a later run that presented the accepted token again has gone
\* through its loop without unblocking the step.
C29_Witness ==
    /\ run.pc = "finalize"
    /\ run.approval_token \in spent_tokens
    /\ run.unblocked = 0
    /\ ~run.raised
    /\ goal.approval_token \notin {NoToken, run.approval_token}
    /\ \E i \in 1..StepCount : steps[i].status = "blocked"

\* C30: during one generate_sql call, the tenant whose policy is checked, the
\* tenant in the cache key and the allowlist SQLGuard.validate checks against
\* are those of the tenant that was active when the call started, also when
\* another request calls set_active_plugin meanwhile.
C30_TenantStableDuringCall ==
    LET call == conc.call
    IN call.pc # "idle"
         => /\ call.policy \in {NoPlugin, call.started}
            /\ call.key.plugin \in {NoPlugin, call.started}
            /\ call.guards \subseteq {call.started}

\* C31: cache_get and cache_set calls of different requests act atomically on
\* the store: a get returns nothing or a value some set wrote to the key and
\* that had not expired when the get read the clock, and the removal of an
\* expired entry removes the entry the get looked up, never one that a set
\* wrote after the lookup.
C31_CacheCallsAtomic ==
    [][/\ \A r \in RunIds :
            (conc'.call[r].pc = "done" /\ conc'.call[r].ret # NoSql)
              => \E w \in conc'.written : /\ w.sql = conc'.call[r].ret
                                           /\ w.exp >= conc'.call[r].t
       /\ (CacheKeyInput \in DOMAIN cache /\ CacheKeyInput \notin DOMAIN cache')
            => \E r \in RunIds : /\ conc.call[r].pc = "inside"
                                 /\ cache[CacheKeyInput] = conc.call[r].val
                                 /\ cache[CacheKeyInput].exp < conc.call[r].t]_vars

\* C31 witness: two sets have written the key, the second after the clock went
\* past the first entry's expiry, and a get that read the clock after that
\* expiry has returned the second value.
C31_Witness ==
    /\ Cardinality(conc.written) = 2
    /\ CacheKeyInput \in DOMAIN cache
    /\ \E r \in RunIds : /\ conc.call[r].pc = "done"
                         /\ conc.call[r].op = "get"
                         /\ conc.call[r].ret = cache[CacheKeyInput].sql
                         /\ conc.call[r].t > LLM_SQL_CACHE_TTL_SECONDS

\* C32: every plan plan_goal returns has only catalog tools, at least one and at
\* most 10 steps, and is the heuristic plan whenever the text-generation backend
\* is unavailable, raises, or returns no line with a catalog tool name.
C32_PlanWithinCatalogAndCap ==
    probe.op \in {"heuristic_plan", "llm_plan"}
      => /\ \A i \in 1..Len(steps) : steps[i].tool_name \in TOOL_CATALOG
         /\ Len(steps) >= 1 /\ Len(steps) <= MaxPlanSteps
         /\ (\/ probe.op = "heuristic_plan"
             \/ probe.error \in {"unavailable", "raises"}
             \/ \A i \in 1..Len(probe.sql) :
                   \A j \in 1..Len(probe.sql[i]) : probe.sql[i][j] \notin TOOL_CATALOG)
              => steps = StepRows(heuristic_plan(goal.goal_text))

\* C32 witness: the planner returned twelve usable lines and the Goal got the
\* first ten of them.
C32_Witness ==
    /\ probe.op = "llm_plan"
    /\ Len(probe.sql) = 12
    /\ Len(steps) = MaxPlanSteps
    /\ \A i \in 1..MaxPlanSteps : steps[i].tool_name = probe.sql[i][1]

\* C33: the PlanSteps of a Goal made by create_goal_with_plan have the orders
\* 1..n with no gap or duplicate and all start pending, and no execute_goal run
\* changes a step's order or adds or removes a step.
C33_StepOrdersFixed ==
    [][/\ {steps[i].step_order : i \in 1..Len(steps)} = 1..Len(steps)
       /\ \A i, j \in 1..Len(steps) : steps[i].step_order = steps[j].step_order => i = j
       /\ (runs = 0 /\ run.pc = "idle")
            => \A i \in 1..Len(steps) : steps[i].status = "pending"
       /\ Len(steps') = Len(steps)
       /\ \A i \in 1..Len(steps) : /\ steps'[i].step_order = steps[i].step_order
                                   /\ steps'[i].tool_name = steps[i].tool_name]_vars

\* C33 witness: a Goal with the eight-step plan has been run to completion and
\* its steps still carry the orders 1..8.
C33_Witness ==
    /\ Len(steps) = 8
    /\ ret.status = "completed"
    /\ run.pc = "idle"
    /\ \A i \in 1..8 : steps[i].step_order = i /\ steps[i].status = "completed"

\* C34: the heuristic plan has an anomaly_scan step exactly when the goal text
\* contains one of anomaly, drop, spike, sudden, outlier in any letter case,
\* and then that step comes right before the final summary_writer step and
\* after sql_execution.
C34_AnomalyScanIffKeyword ==
    probe.op = "heuristic_plan"
      => LET n == Len(steps)
             scans == {i \in 1..n : steps[i].tool_name = "anomaly_scan"}
             with_keyword == {<<"sudden", "sales", "drop">>, <<"sales", "spike", "yesterday">>,
                              <<"anomaly", "in", "revenue">>, <<"dropped", "orders">>,
                              <<"outliers", "by", "region">>, <<"DROP", "in", "sales">>}
         IN /\ scans # {} <=> goal.goal_text \in with_keyword
            /\ steps[n].tool_name = "summary_writer"
            /\ scans # {}
                 => /\ scans = {n - 1}
                    /\ \E j \in 1..(n - 2) : steps[j].tool_name = "sql_execution"

\* C34 witness: the plan for "DROP in sales" has anomaly_scan as its seventh
\* step, between sql_execution and summary_writer.
C34_Witness ==
    /\ probe.op = "heuristic_plan"
    /\ goal.goal_text = <<"DROP", "in", "sales">>
    /\ Len(steps) = 8
    /\ steps[6].tool_name = "sql_execution"
    /\ steps[7].tool_name = "anomaly_scan"
    /\ steps[8].tool_name = "summary_writer"

C36_RiskyNeverRunsUnapproved ==
    \A e \in db_log :
        ~e.auto_approve => ~is_risky_sql(e.sql) /\ ~is_risky_sql(e.scoped)

\* C36 witness: a run with auto_approve false and the matching token unblocked
\* the sql_execution step, found its statement risky and blocked it again;
\* the database has received nothing.
C36_Witness ==
    /\ run.pc = "finalize"
    /\ ~run.auto_approve
    /\ run.matched
    /\ run.unblocked # 0
    /\ steps[run.unblocked].tool_name = "sql_execution"
    /\ steps[run.unblocked].status = "blocked"
    /\ is_risky_sql(run.step_outputs["sql_generation"].sql)
    /\ db_log = {}

C38_NoStepRunningAfterReturn ==
    run.pc = "idle" => \A i \in 1..StepCount : steps[i].status # "running"

\* a run has returned after it ran a step to completion and left one blocked
C38_Witness ==
    /\ run.pc = "idle"
    /\ runs > 0
    /\ \E i \in 1..StepCount : steps[i].status = "completed"
    /\ \E i \in 1..StepCount : steps[i].status = "blocked"

\* C39 as stated: whenever enforce_dataset_filter returns a statement, the
\* statement holds the placeholder :dataset_id, both when the predicate was
\* added and when the statement was returned unchanged because it named
\* dataset_id already.
C39_ReturnedStatementHoldsPlaceholder ==
    (probe.op = "enforce" /\ probe.ok)
      => \E i \in 1..Len(probe.out) : probe.out[i] = ":dataset_id"
====
